---- MODULE Spec2Model ----
(***************************************************************************)
(* Behaviour-tree engine of the shrubbery crate: the node arena and the    *)
(* adjacency map of ControlTree, the per-variant state machines of the     *)
(* control nodes and the traversal loop of run / run_from.                 *)
(***************************************************************************)
EXTENDS Integers, Sequences, FiniteSets, TLC

\* ------------------------------------------------------------------ bounds
\* number of nodes added below the root through ControlTree::add_child
MaxNodes == 3
\* number of nodes added below the root through the layer builder
MaxNested == 4
\* largest `retries` argument given to Repeater::new
MaxRetries == 1
\* how many times the hook may answer Running during one run
MaxRunning == 1

\* ------------------------------------------------------- program constants
ROOT_ID == 0

\* ------------------------------------------------------------------ Status
Success == "Success"
Failure == "Failure"
Running == "Running"
Status == {Success, Failure, Running}

\* Option<T>: None is the empty sequence, Some(x) the one-element sequence
None == << >>
Some(x) == << x >>

\* Option<Status>::unwrap_or_default(): Status::default() is Running
UnwrapOrDefault(o) == IF o = None THEN Running ELSE o[1]
UnwrapOr(o, d) == IF o = None THEN d ELSE o[1]

is_running(s) == s = Running
is_success(s) == s = Success
is_failure(s) == s = Failure
is_terminal(s) == is_success(s) \/ is_failure(s)

into_failure_if_running(s) == IF is_running(s) THEN Failure ELSE s

\* a negation that leaves the status as it is
NotFlipped(s) == s

Not(s) == CASE s = Success -> Failure
            [] s = Failure -> Success
            [] OTHER -> Running

\* ChildUpdate { status, child_id }
ChildUpdate(s, c) == [status |-> s, child_id |-> c]

\* ------------------------------------------------------ node constructors
NewSequence == [type |-> "Sequence", pending |-> {}, failed |-> None,
                status |-> None, finished |-> FALSE]
NewFallback == [type |-> "Fallback", status |-> None]
NewParallel == [type |-> "Parallel", success |-> {}, failure |-> {},
                pending |-> {}, finished |-> FALSE]
NewInverter == [type |-> "Inverter", child_status |-> None]
NewSubtree == [type |-> "Subtree", status |-> None]
NewRepeater(retries) == [type |-> "Repeater", init_retry |-> retries + 1,
                         retry |-> retries + 1, status |-> None,
                         reset_request |-> None]

ControlNode(nt) == [variant |-> "Control", node_type |-> nt, status |-> None,
                    id |-> None, reset_requests |-> << >>]
RootNodeFallback == [variant |-> "Root", node_type |-> NewFallback,
                     status |-> None, id |-> None, reset_requests |-> << >>]
RootNode == [variant |-> "Root", node_type |-> NewSequence, status |-> None,
             id |-> None, reset_requests |-> << >>]
LeafNode == [variant |-> "Leaf", id |-> None, status |-> None]

is_decorator_type(nt) == nt.type \in {"Inverter", "Repeater", "Subtree"}

\* the nodes a caller can hand to add_child
NewNodes == {ControlNode(NewSequence), ControlNode(NewFallback),
             ControlNode(NewParallel), ControlNode(NewInverter),
             ControlNode(NewSubtree), LeafNode}
            \cup {ControlNode(NewRepeater(r)) : r \in 0..MaxRetries}

\* ------------------------------------------- variant state machines: tick
\* each returns [self |-> the variant after the call, ret |-> the Status]
\* a Sequence that does not look at `failed` before it answers
SequenceTickNoFailFast(s) ==
    IF s.finished
    THEN [self |-> [s EXCEPT !.status = Some(Success)], ret |-> Success]
    ELSE LET s1 == IF s.status = None THEN [s EXCEPT !.status = Some(Running)]
                   ELSE s
         IN [self |-> s1, ret |-> UnwrapOrDefault(s1.status)]

SequenceTick(s) ==
    IF s.failed # None
    THEN [self |-> [s EXCEPT !.status = Some(Failure)], ret |-> Failure]
    ELSE IF s.finished
    THEN [self |-> [s EXCEPT !.status = Some(Success)], ret |-> Success]
    ELSE LET s1 == IF s.status = None THEN [s EXCEPT !.status = Some(Running)]
                   ELSE s
         IN [self |-> s1, ret |-> UnwrapOrDefault(s1.status)]

FallbackTick(f) == [self |-> f, ret |-> UnwrapOrDefault(f.status)]

\* a Parallel that fails as soon as one child has failed
ParallelTickFailFast(p) ==
    [self |-> p,
     ret |-> IF p.failure # {} THEN Failure
             ELSE IF p.finished THEN Success ELSE Running]

ParallelTick(p) ==
    [self |-> p,
     ret |-> IF p.finished
             THEN (IF p.failure = {} THEN Success ELSE Failure)
             ELSE Running]

InverterStatus(i) == Not(UnwrapOrDefault(i.child_status))

can_retry(r) == r.retry > 0

RepeaterStatus(r) ==
    IF can_retry(r) THEN UnwrapOrDefault(r.status)
    ELSE UnwrapOr(r.status, Failure)

SubtreeStatus(s) == UnwrapOrDefault(s.status)

DecoratorStatus(d) ==
    CASE d.type = "Inverter" -> InverterStatus(d)
      [] d.type = "Repeater" -> RepeaterStatus(d)
      [] d.type = "Subtree" -> SubtreeStatus(d)

\* ---------------------------------- variant state machines: child_updated
\* a Sequence that takes a Running child for a failed one
SequenceChildUpdatedRunningFails(s, update) ==
    CASE update.status = Success ->
           [s EXCEPT !.pending = @ \ {update.child_id}]
      [] update.status \in {Running, Failure} ->
           [s EXCEPT !.failed = Some(update.child_id)]

SequenceChildUpdated(s, update) ==
    CASE update.status = Running ->
           [s EXCEPT !.pending = @ \cup {update.child_id}]
      [] update.status = Success ->
           [s EXCEPT !.pending = @ \ {update.child_id}]
      [] update.status = Failure ->
           [s EXCEPT !.failed = Some(update.child_id)]

\* a Fallback that does not record its child's Success
FallbackChildUpdatedIgnored(f, update) == f

FallbackChildUpdated(f, update) ==
    IF is_success(update.status) THEN [f EXCEPT !.status = Some(Success)]
    ELSE f

\* a Parallel that does not record the children that failed
ParallelChildUpdatedForgiving(p, update) ==
    CASE update.status = Success ->
           [p EXCEPT !.pending = @ \ {update.child_id},
                     !.success = @ \cup {update.child_id}]
      [] update.status = Failure ->
           [p EXCEPT !.pending = @ \ {update.child_id}]
      [] update.status = Running ->
           [p EXCEPT !.pending = @ \cup {update.child_id}]

ParallelChildUpdated(p, update) ==
    CASE update.status = Success ->
           [p EXCEPT !.pending = @ \ {update.child_id},
                     !.success = @ \cup {update.child_id}]
      [] update.status = Failure ->
           [p EXCEPT !.pending = @ \ {update.child_id},
                     !.failure = @ \cup {update.child_id}]
      [] update.status = Running ->
           [p EXCEPT !.pending = @ \cup {update.child_id}]

InverterChildUpdated(i, update) ==
    [self |-> [i EXCEPT !.child_status = Some(update.status)],
     ret |-> Not(update.status)]

SubtreeChildUpdated(s, update) ==
    [self |-> [s EXCEPT !.status = Some(update.status)],
     ret |-> update.status]

\* a Repeater that also spends a retry on a Running child
RepeaterChildUpdatedCountingRunning(r, update) ==
    IF ~can_retry(r)
    THEN [self |-> [r EXCEPT !.status = Some(Failure)], ret |-> Failure]
    ELSE CASE update.status = Success ->
                [self |-> [r EXCEPT !.status = Some(Success),
                                    !.reset_request = None],
                 ret |-> Success]
           [] update.status \in {Failure, Running} ->
                [self |-> [r EXCEPT !.retry = @ - 1,
                                    !.status = Some(Running),
                                    !.reset_request = Some(update.child_id)],
                 ret |-> Running]

RepeaterChildUpdated(r, update) ==
    IF ~can_retry(r)
    THEN [self |-> [r EXCEPT !.status = Some(Failure)], ret |-> Failure]
    ELSE CASE update.status = Success ->
                [self |-> [r EXCEPT !.status = Some(Success),
                                    !.reset_request = None],
                 ret |-> Success]
           [] update.status = Failure ->
                [self |-> [r EXCEPT !.retry = @ - 1,
                                    !.status = Some(Running),
                                    !.reset_request = Some(update.child_id)],
                 ret |-> Running]
           [] update.status = Running ->
                [self |-> [r EXCEPT !.status = Some(Running),
                                    !.reset_request = Some(update.child_id)],
                 ret |-> Running]

DecoratorChildUpdated(d, update) ==
    CASE d.type = "Inverter" -> InverterChildUpdated(d, update)
      [] d.type = "Repeater" -> RepeaterChildUpdated(d, update)
      [] d.type = "Subtree" -> SubtreeChildUpdated(d, update)

\* ------------------------------ variant state machines: all_children_seen
\* a Sequence that finishes only while children are pending
SequenceAllChildrenSeenPending(s) ==
    IF s.pending # {} THEN [s EXCEPT !.finished = TRUE] ELSE s

SequenceAllChildrenSeen(s) ==
    IF s.pending = {} THEN [s EXCEPT !.finished = TRUE] ELSE s

\* a Fallback that waits for another pass
FallbackAllChildrenSeenWaiting(f) == f

FallbackAllChildrenSeen(f) ==
    [f EXCEPT !.status = IF f.status = None THEN Some(Failure)
                         ELSE Some(into_failure_if_running(f.status[1]))]

ParallelAllChildrenSeen(p) ==
    IF p.pending = {} THEN [p EXCEPT !.finished = TRUE] ELSE p

\* a Repeater that hands out its stored request whatever its retries
RepeaterResetRequestAlways(r) ==
    [self |-> [r EXCEPT !.reset_request = None], ret |-> r.reset_request]

\* Decorator::reset_request: [self, ret |-> Option<CTreeNodeID>]; only the
\* Repeater overrides the trait's default (None)
RepeaterResetRequest(r) ==
    IF can_retry(r)
    THEN [self |-> [r EXCEPT !.reset_request = None], ret |-> r.reset_request]
    ELSE [self |-> r, ret |-> None]

DecoratorResetRequest(d) ==
    IF d.type = "Repeater" THEN RepeaterResetRequest(d)
    ELSE [self |-> d, ret |-> None]

\* ------------------------------------------ variant state machines: reset
SequenceReset(s) == [s EXCEPT !.pending = {}, !.failed = None,
                              !.status = None, !.finished = FALSE]
FallbackReset(f) == [f EXCEPT !.status = None]
ParallelReset(p) == [p EXCEPT !.success = {}, !.failure = {},
                              !.pending = {}, !.finished = FALSE]
InverterReset(i) == [i EXCEPT !.child_status = None]
SubtreeReset(s) == [s EXCEPT !.status = None]
RepeaterReset(r) == [r EXCEPT !.reset_request = None, !.status = None,
                              !.retry = r.init_retry]

NodeTypeReset(nt) ==
    CASE nt.type = "Sequence" -> SequenceReset(nt)
      [] nt.type = "Fallback" -> FallbackReset(nt)
      [] nt.type = "Parallel" -> ParallelReset(nt)
      [] nt.type = "Inverter" -> InverterReset(nt)
      [] nt.type = "Subtree" -> SubtreeReset(nt)
      [] nt.type = "Repeater" -> RepeaterReset(nt)

\* ----------------------------------------------- impl Control for ControlNode
\* each returns the node after the call (tick also returns the Status)
ControlNodeTick(c) ==
    LET c1 == IF c.status = None THEN [c EXCEPT !.status = Some(Running)]
              ELSE c
        t == CASE c1.node_type.type = "Sequence" -> SequenceTick(c1.node_type)
               [] c1.node_type.type = "Fallback" -> FallbackTick(c1.node_type)
               [] c1.node_type.type = "Parallel" -> ParallelTick(c1.node_type)
               [] OTHER -> [self |-> c1.node_type,
                            ret |-> DecoratorStatus(c1.node_type)]
    IN [self |-> [c1 EXCEPT !.node_type = t.self, !.status = Some(t.ret)],
        ret |-> t.ret]

ControlNodeChildUpdated(c, update) ==
    LET c1 ==
          CASE c.node_type.type = "Sequence" ->
                 [c EXCEPT !.node_type = SequenceChildUpdated(@, update)]
            [] c.node_type.type = "Fallback" ->
                 [c EXCEPT !.node_type = FallbackChildUpdated(@, update)]
            [] c.node_type.type = "Parallel" ->
                 [c EXCEPT !.node_type = ParallelChildUpdated(@, update)]
            [] OTHER ->
                 LET d == DecoratorChildUpdated(c.node_type, update)
                 IN [c EXCEPT !.node_type = d.self, !.status = Some(d.ret)]
    IN ControlNodeTick(c1).self

ControlNodeAllChildrenSeen(c) ==
    CASE c.node_type.type = "Sequence" ->
           [c EXCEPT !.node_type = SequenceAllChildrenSeen(@)]
      [] c.node_type.type = "Fallback" ->
           [c EXCEPT !.node_type = FallbackAllChildrenSeen(@)]
      [] c.node_type.type = "Parallel" ->
           [c EXCEPT !.node_type = ParallelAllChildrenSeen(@)]
      [] OTHER ->
           LET d == DecoratorResetRequest(c.node_type)
           IN [c EXCEPT !.node_type = d.self,
                        !.reset_requests =
                            IF d.ret = None THEN @ ELSE Append(@, d.ret[1])]

ControlNodeReset(c) == [c EXCEPT !.node_type = NodeTypeReset(@)]

\* -------------------------------------------------- CTreeNode (Root, Control, Leaf)
is_leaf(n) == n.variant = "Leaf"
is_control(n) == n.variant = "Control"
is_root(n) == n.variant = "Root"

\* a status that is returned and not kept
set_statusDropping(n, s) == n

set_status(n, s) == [n EXCEPT !.status = Some(s)]
clear_status(n) == [n EXCEPT !.status = None]
set_id(n, id) == [n EXCEPT !.id = Some(id)]
unset_id(n) == [n EXCEPT !.id = None]

\* LeafNode::tick returns the cached status; CTreeNode::tick then stores it
LeafTick(l) == [self |-> l, ret |-> UnwrapOrDefault(l.status)]

CTreeNodeTick(n) ==
    LET t == IF is_leaf(n) THEN LeafTick(n) ELSE ControlNodeTick(n)
    IN [self |-> set_status(t.self, t.ret), ret |-> t.ret]

\* LeafNode::child_updated panics: the leaf is marked with the status "Panic"
LeafChildUpdated(l, update) == [l EXCEPT !.status = Some("Panic")]

CTreeNodeChildUpdated(n, update) ==
    IF is_leaf(n) THEN LeafChildUpdated(n, update)
    ELSE ControlNodeChildUpdated(n, update)

\* Control::all_children_seen has an empty default body, which LeafNode keeps
CTreeNodeAllChildrenSeen(n) ==
    IF is_leaf(n) THEN n ELSE ControlNodeAllChildrenSeen(n)

\* a reset that leaves the cached status of a leaf
CTreeNodeResetControlOnly(n) ==
    IF is_leaf(n) THEN n ELSE ControlNodeReset(clear_status(n))

CTreeNodeReset(n) ==
    IF is_leaf(n) THEN clear_status(n) ELSE ControlNodeReset(clear_status(n))

\* -------------------------------------------------------------- ControlTree
\* nodes: Vec<CTreeNode>, the node of id i is nodes[i + 1];
\* tree: HashMap<CTreeNodeID, Vec<CTreeNodeID>>, a function on its keys
NodeOf(ns, id) == ns[id + 1]
SetNode(ns, id, n) == [ns EXCEPT ![id + 1] = n]

NewTree == [nodes |-> << RootNode >>, tree |-> (ROOT_ID :> << >>)]

\* Vec::insert(index, x)
VecInsert(v, index, x) ==
    SubSeq(v, 1, index) \o << x >> \o SubSeq(v, index + 1, Len(v))

Min(a, b) == IF a < b THEN a ELSE b

\* HashMap::entry(k).or_default()
EntryOrDefault(tr, k) == IF k \in DOMAIN tr THEN tr ELSE tr @@ (k :> << >>)

\* usize::MAX as a priority: larger than any sibling count (the model's
\* integers are 32 bits wide, the value only ever meets min(_, len))
UsizeMax == 2147483647

\* an insertion that ignores the priority and always appends
AddChildUncheckedAppending(t, parent_id, child, priority) ==
    LET id == IF child.id # None THEN child.id[1] ELSE Len(t.nodes)
        ns == VecInsert(t.nodes, id, set_id(child, id))
        tr1 == EntryOrDefault(t.tree, parent_id)
        tr2 == [tr1 EXCEPT ![parent_id] = Append(@, id)]
    IN [nodes |-> ns, tree |-> EntryOrDefault(tr2, id), id |-> id]

\* add_child_unchecked_with_priority on the tree [nodes, tree]:
\* returns [nodes, tree, id]
AddChildUncheckedWithPriority(t, parent_id, child, priority) ==
    LET id == IF child.id # None THEN child.id[1] ELSE Len(t.nodes)
        ns == VecInsert(t.nodes, id, set_id(child, id))
        tr1 == EntryOrDefault(t.tree, parent_id)
        index == Min(priority, Len(tr1[parent_id]))
        tr2 == [tr1 EXCEPT ![parent_id] = VecInsert(@, index, id)]
    IN [nodes |-> ns, tree |-> EntryOrDefault(tr2, id), id |-> id]

AddChildUnchecked(t, parent_id, child) ==
    AddChildUncheckedWithPriority(t, parent_id, child, UsizeMax)

\* self.children(&id) == self.tree[id].clone()
Children(tr, id) == tr[id]

\* reset_branch: to_visit is the Vec used as a stack (pop takes the last)
RECURSIVE ResetFrom(_, _, _)
ResetFrom(ns, tr, to_visit) ==
    IF to_visit = << >> THEN ns
    ELSE LET id == to_visit[Len(to_visit)]
             rest == SubSeq(to_visit, 1, Len(to_visit) - 1)
         IN ResetFrom(SetNode(ns, id, CTreeNodeReset(NodeOf(ns, id))), tr,
                      rest \o tr[id])

\* a reset that stops at the node it was asked for
ResetBranchNodeOnly(ns, tr, from) ==
    SetNode(ns, from, CTreeNodeReset(NodeOf(ns, from)))

ResetBranch(ns, tr, from) == ResetFrom(ns, tr, << from >>)

\* a drain that answers any request with a reset of the whole tree
ResetAllFromRoot(ns, tr, reset) ==
    IF reset = << >> THEN ns ELSE ResetBranch(ns, tr, ROOT_ID)

RECURSIVE ResetAll(_, _, _)
ResetAll(ns, tr, reset) ==
    IF reset = << >> THEN ns
    ELSE ResetAll(ResetBranch(ns, tr, Head(reset)), tr, Tail(reset))

\* a drain that resets the requested branches and keeps the list
HandleResetRequestsKeeping(ns, tr, node_id) ==
    IF is_control(NodeOf(ns, node_id))
    THEN ResetAll(ns, tr, NodeOf(ns, node_id).reset_requests)
    ELSE ns

\* handle_reset_requests: only a Control node (not the Root) is drained
HandleResetRequests(ns, tr, node_id) ==
    IF is_control(NodeOf(ns, node_id))
    THEN LET reset == NodeOf(ns, node_id).reset_requests
             ns1 == SetNode(ns, node_id,
                      [NodeOf(ns, node_id) EXCEPT !.reset_requests = << >>])
         IN ResetAll(ns1, tr, reset)
    ELSE ns

\* status(): the cached status of the root
TreeStatus(ns) == UnwrapOrDefault(NodeOf(ns, ROOT_ID).status)

\* ---------------------------------------------------------------- validation
\* recursion depth after which the native stack of the cycle check overflows
StackDepth == 8

\* recurse_children_check_cycles(from, history): "Ok", "CycleDetected",
\* "Panic" when children(from) indexes the map at a key it does not have or,
\* when the recursion never ends, "StackOverflow"
RECURSIVE RecurseChildrenCheckCycles(_, _, _, _)
RECURSIVE CheckChildrenInOrder(_, _, _, _)
RecurseChildrenCheckCycles(tr, from, history, depth) ==
    IF history # << >> /\ history[1] = from THEN "CycleDetected"
    ELSE IF from \notin DOMAIN tr THEN "Panic"
    ELSE IF depth = 0 THEN "StackOverflow"
    ELSE CheckChildrenInOrder(tr, Children(tr, from),
                              Append(history, from), depth - 1)

CheckChildrenInOrder(tr, children, history, depth) ==
    IF children = << >> THEN "Ok"
    ELSE LET r == RecurseChildrenCheckCycles(tr, Head(children), history,
                                             depth)
         IN IF r # "Ok" THEN r
            ELSE CheckChildrenInOrder(tr, Tail(children), history, depth)

\* check_for_cycles: the outcomes the HashMap's iteration order allows
CheckForCycles(t) ==
    LET edges == UNION {{<<p, i>> : i \in 1..Len(t.tree[p])} :
                        p \in DOMAIN t.tree}
        bad == {RecurseChildrenCheckCycles(t.tree, t.tree[e[1]][e[2]],
                                           << e[1] >>, StackDepth) :
                e \in edges} \ {"Ok"}
    IN IF bad = {} THEN {"Ok"} ELSE bad

\* iter().find(..): the first of the arena indices in hits (Vec order), or
\* None
FirstIndex(hits) ==
    IF hits = {} THEN None
    ELSE Some(CHOOSE i \in hits : \A j \in hits : i <= j)

\* ShrubberyResult<()>: Ok(()), an Err(ShrubberyError), or no result at all
\* (the call panicked or overflowed its stack)
Ok == [err |-> "Ok"]
CycleDetected == [err |-> "CycleDetected"]
InvalidDecorator(decorator, children) ==
    [err |-> "InvalidDecorator", decorator |-> decorator,
     children |-> children]
DanglingControlNode(id) == [err |-> "DanglingControlNode", id |-> id]
Crash(how) == [err |-> how]
IsCrash(r) == "err" \in DOMAIN r /\ r.err \in {"Panic", "StackOverflow",
                                                "Diverges"}

\* a check that rejects only the decorators with more than one child
ValidateDecoratorsAtMostOne(t) ==
    LET bad(n) == /\ is_control(n)
                  /\ is_decorator_type(n.node_type)
                  /\ n.id # None
                  /\ \/ n.id[1] \notin DOMAIN t.tree
                     \/ Len(Children(t.tree, n.id[1])) > 1
        v == FirstIndex({i \in 1..Len(t.nodes) : bad(t.nodes[i])})
    IN IF v = None THEN Ok
       ELSE LET id == t.nodes[v[1]].id[1]
            IN IF id \notin DOMAIN t.tree THEN Crash("Panic")
               ELSE InvalidDecorator(id, Children(t.tree, id))

\* validate_decorators: the first decorator (by its id field) whose child
\* count is not one; children(id) panics when the map has no entry for id
ValidateDecorators(t) ==
    LET bad(n) == /\ is_control(n)
                  /\ is_decorator_type(n.node_type)
                  /\ n.id # None
                  /\ \/ n.id[1] \notin DOMAIN t.tree
                     \/ Len(Children(t.tree, n.id[1])) # 1
        v == FirstIndex({i \in 1..Len(t.nodes) : bad(t.nodes[i])})
    IN IF v = None THEN Ok
       ELSE LET id == t.nodes[v[1]].id[1]
            IN IF id \notin DOMAIN t.tree THEN Crash("Panic")
               ELSE InvalidDecorator(id, Children(t.tree, id))

\* a check that forgets to keep to the Control nodes: leaves count as
\* dangling too
CheckForDanglingControlAnyNode(t) ==
    LET bad(n) == /\ n.id # None
                  /\ \/ n.id[1] \notin DOMAIN t.tree
                     \/ Children(t.tree, n.id[1]) = << >>
        v == FirstIndex({i \in 1..Len(t.nodes) : bad(t.nodes[i])})
    IN IF v = None THEN Ok
       ELSE LET id == t.nodes[v[1]].id[1]
            IN IF id \notin DOMAIN t.tree THEN Crash("Panic")
               ELSE DanglingControlNode(id)

\* check_for_dangling_control: the first Control node without children
CheckForDanglingControl(t) ==
    LET bad(n) == /\ is_control(n)
                  /\ n.id # None
                  /\ \/ n.id[1] \notin DOMAIN t.tree
                     \/ Children(t.tree, n.id[1]) = << >>
        v == FirstIndex({i \in 1..Len(t.nodes) : bad(t.nodes[i])})
    IN IF v = None THEN Ok
       ELSE LET id == t.nodes[v[1]].id[1]
            IN IF id \notin DOMAIN t.tree THEN Crash("Panic")
               ELSE DanglingControlNode(id)

\* validate_bt_rules: cycles, then decorators, then dangling controls
ValidateBtRules(t) ==
    LET c == CheckForCycles(t)
    IN IF c # {"Ok"} THEN {[err |-> e] : e \in c}
       ELSE IF ValidateDecorators(t) # Ok THEN {ValidateDecorators(t)}
       ELSE {CheckForDanglingControl(t)}

\* a removal that forgets the child lists and only drops the entry of id
RemoveEntryOnly(tr, id) == [k \in (DOMAIN tr) \ {id} |-> tr[k]]

\* remove(id): drop id from every child list, then drop its own entry
Remove(tr, id) ==
    LET keep(v) == SelectSeq(v, LAMBDA c : c # id)
    IN [k \in (DOMAIN tr) \ {id} |-> keep(tr[k])]

\* slice.contains(x)
Contains(v, x) == \E k \in 1..Len(v) : v[k] = x

\* an insertion that leaves the new node at the end of the parent's list
InsertBetweenAppending(t, parent_id, move_down, node) ==
    LET had == parent_id \in DOMAIN t.tree
        children == IF had THEN t.tree[parent_id] ELSE << >>
        found == {k \in 1..Len(children) : Contains(move_down, children[k])}
    IN IF had /\ found = {} THEN Crash("Panic")
       ELSE LET kept == SelectSeq(children,
                                  LAMBDA v : ~Contains(move_down, v))
                tr1 == [EntryOrDefault(t.tree, parent_id)
                            EXCEPT ![parent_id] = kept]
                a == AddChildUnchecked([nodes |-> t.nodes, tree |-> tr1],
                                       parent_id, node)
                tr3 == [a.tree EXCEPT ![a.id] = @ \o move_down]
            IN [nodes |-> a.nodes, tree |-> tr3, id |-> a.id]

\* insert_between(parent_id, move_down, node) on the tree [nodes, tree]:
\* returns [nodes, tree, id], or Crash("Panic") when parent_id has a child
\* list none of whose members is in move_down (the expect of line 391)
InsertBetween(t, parent_id, move_down, node) ==
    LET had == parent_id \in DOMAIN t.tree
        children == IF had THEN t.tree[parent_id] ELSE << >>
        found == {k \in 1..Len(children) : Contains(move_down, children[k])}
    IN IF had /\ found = {} THEN Crash("Panic")
       ELSE LET i == IF had
                     THEN (CHOOSE k \in found : \A j \in found : k <= j) - 1
                     ELSE 0
                kept == SelectSeq(children,
                                  LAMBDA v : ~Contains(move_down, v))
                tr1 == [EntryOrDefault(t.tree, parent_id)
                            EXCEPT ![parent_id] = kept]
                a == AddChildUnchecked([nodes |-> t.nodes, tree |-> tr1],
                                       parent_id, node)
                popped == SubSeq(a.tree[parent_id], 1,
                                 Len(a.tree[parent_id]) - 1)
                tr2 == [a.tree EXCEPT ![parent_id] =
                                          VecInsert(popped, i, a.id)]
                tr3 == [tr2 EXCEPT ![a.id] = @ \o move_down]
            IN [nodes |-> a.nodes, tree |-> tr3, id |-> a.id]

\* add_floating_node: the node is pushed as it is, its id field untouched
AddFloatingNode(t, node) ==
    [nodes |-> Append(t.nodes, node), tree |-> t.tree,
     id |-> Len(t.nodes)]

\* the closure as_subtree hands to explore_down_with_deps, applied to the
\* children one after the other: deps is [subtree, old_to_new]
RECURSIVE CopyChildren(_, _, _, _)
CopyChildren(t, deps, parent_id, children) ==
    IF children = << >> THEN deps
    ELSE LET old_id == Head(children)
             f == AddFloatingNode(deps.subtree, NodeOf(t.nodes, old_id))
             tr == EntryOrDefault(f.tree, parent_id)
             sub == [nodes |-> f.nodes,
                     tree |-> [tr EXCEPT ![parent_id] = Append(@, f.id)]]
             o2n == [k \in DOMAIN deps.old_to_new \cup {old_id} |->
                        IF k = old_id THEN f.id ELSE deps.old_to_new[k]]
         IN CopyChildren(t, [subtree |-> sub, old_to_new |-> o2n],
                         parent_id, Tail(children))

\* iterations of explore_down_with_deps after which its work list can only
\* keep growing
MaxExplore == 8

\* explore_down_with_deps: to_visit is the Vec used as a stack. The result is
\* deps, or a Crash: "Panic" for children(from) of a missing entry, for
\* parent.id().unwrap() of None and for old_to_new[..] of a missing key,
\* "Diverges" when the loop never ends
RECURSIVE ExploreDownWithDeps(_, _, _, _)
ExploreDownWithDeps(t, to_visit, deps, fuel) ==
    IF to_visit = << >> THEN deps
    ELSE IF fuel = 0 THEN Crash("Diverges")
    ELSE LET from == to_visit[Len(to_visit)]
             rest == SubSeq(to_visit, 1, Len(to_visit) - 1)
             parent == NodeOf(t.nodes, from)
         IN IF from \notin DOMAIN t.tree THEN Crash("Panic")
            ELSE IF parent.id = None THEN Crash("Panic")
            ELSE IF parent.id[1] \notin DOMAIN deps.old_to_new
                 THEN Crash("Panic")
            ELSE ExploreDownWithDeps(
                     t, rest \o Children(t.tree, from),
                     CopyChildren(t, deps, deps.old_to_new[parent.id[1]],
                                  Children(t.tree, from)),
                     fuel - 1)

\* as_subtree(start_at): the new ControlTree, or a Crash
AsSubtree(t, start_at) ==
    LET start == NodeOf(t.nodes, start_at)
    IN IF start.id = None THEN Crash("Panic")
       ELSE LET a == AddChildUnchecked(NewTree, ROOT_ID, unset_id(start))
                o2n == [k \in {ROOT_ID, start.id[1]} |->
                           IF k = start.id[1] THEN a.id ELSE ROOT_ID]
                d == ExploreDownWithDeps(
                         t, << start_at >>,
                         [subtree |-> [nodes |-> a.nodes, tree |-> a.tree],
                          old_to_new |-> o2n],
                         MaxExplore)
            IN IF IsCrash(d) THEN d ELSE d.subtree

\* add_subtree_with_priority, first loop: every node of the spliced arena
\* that is not the Root is pushed as a floating node; acc is
\* [t, old_to_new], or Crash("Panic") for node.id().unwrap() of None
RECURSIVE SpliceNodes(_, _)
SpliceNodes(acc, rest) ==
    IF rest = << >> \/ IsCrash(acc) THEN acc
    ELSE LET node == Head(rest)
         IN IF is_root(node) THEN SpliceNodes(acc, Tail(rest))
            ELSE IF node.id = None THEN Crash("Panic")
            ELSE LET f == AddFloatingNode(acc.t, node)
                     o2n == [k \in DOMAIN acc.old_to_new \cup {node.id[1]} |->
                                IF k = node.id[1] THEN f.id
                                ELSE acc.old_to_new[k]]
                 IN SpliceNodes([t |-> [nodes |-> f.nodes, tree |-> f.tree],
                                 old_to_new |-> o2n],
                                Tail(rest))

\* children.into_iter().flat_map(|old_child| old_to_new.get(&old_child))
RECURSIVE NewChildren(_, _)
NewChildren(old_to_new, children) ==
    IF children = << >> THEN << >>
    ELSE (IF Head(children) \in DOMAIN old_to_new
          THEN << old_to_new[Head(children)] >> ELSE << >>)
         \o NewChildren(old_to_new, Tail(children))

\* add_subtree_with_priority, second loop: the lists of the spliced map whose
\* key is in old_to_new are remapped and appended to the entry of the
\* receiving map at that same key (old_parent); keys is the set of entries
\* still to handle, which land in different entries, so their order does not
\* matter
RECURSIVE SpliceEdges(_, _, _, _)
SpliceEdges(tr, sub_tree, old_to_new, keys) ==
    IF keys = {} THEN tr
    ELSE LET old_parent == CHOOSE k \in keys : TRUE
             tr1 == EntryOrDefault(tr, old_parent)
         IN SpliceEdges(
                [tr1 EXCEPT ![old_parent] =
                     @ \o NewChildren(old_to_new, sub_tree[old_parent])],
                sub_tree, old_to_new, keys \ {old_parent})

\* add_subtree_with_priority(from, priority, subtree) on the tree
\* [nodes, tree]: returns [nodes, tree, id] with the id of the Subtree
\* decorator, or Crash("Panic")
AddSubtreeWithPriority(t, from, priority, subtree) ==
    LET f == AddFloatingNode(t, ControlNode(NewSubtree))
        tr1 == EntryOrDefault(f.tree, from)
        index == Min(priority, Len(tr1[from]))
        tr2 == [tr1 EXCEPT ![from] = VecInsert(@, index, f.id)]
        acc == SpliceNodes([t |-> [nodes |-> f.nodes, tree |-> tr2],
                            old_to_new |-> << >>],
                           subtree.nodes)
    IN IF IsCrash(acc) THEN acc
       ELSE [nodes |-> acc.t.nodes,
             tree |-> SpliceEdges(acc.t.tree, subtree.tree, acc.old_to_new,
                                  DOMAIN subtree.tree
                                      \cap DOMAIN acc.old_to_new),
             id |-> f.id]

\* ------------------------------------------------------------ LeafDispatch
\* the actions are told apart by the status they return
NewDispatch == [conditionals |-> << >>, executors |-> << >>, mask |-> << >>]

AddExecutor(d, id, executor) ==
    [conditionals |-> d.conditionals,
     executors |-> Append(d.executors, executor),
     mask |-> (id :> [kind |-> "Executor", index |-> Len(d.executors)])
              @@ d.mask]

AddConditional(d, id, conditional) ==
    [conditionals |-> Append(d.conditionals, conditional),
     executors |-> d.executors,
     mask |-> (id :> [kind |-> "Conditional", index |-> Len(d.conditionals)])
              @@ d.mask]

\* a hook that lets a leaf without action succeed
TaskHookHookDefaulting(d, leaf) ==
    IF leaf.id = None THEN Failure
    ELSE IF leaf.id[1] \notin DOMAIN d.mask THEN Success
    ELSE LET target_id == d.mask[leaf.id[1]]
         IN IF target_id.kind = "Executor"
            THEN d.executors[target_id.index + 1]
            ELSE d.conditionals[target_id.index + 1]

\* impl ExecutorHook for TaskHook
TaskHookHook(d, leaf) ==
    IF leaf.id = None THEN Failure
    ELSE IF leaf.id[1] \notin DOMAIN d.mask THEN Failure
    ELSE LET target_id == d.mask[leaf.id[1]]
         IN IF target_id.kind = "Executor"
            THEN d.executors[target_id.index + 1]
            ELSE d.conditionals[target_id.index + 1]

\* -------------------------------------------------------------------- state
VARIABLES
    nodes,          \* ControlTree.nodes of the tree being built, then run
    tree,           \* ControlTree.tree of that tree
    builder,        \* who builds: "ControlTree" (add_child) or "BTBuilder"
    layer_id,       \* CTreeLayerBuilder.layer_id of the innermost open layer
    phase,          \* "build", "built", "rejected", "run", "done"
    build_result,   \* what build() returned, None before it is called
    api,            \* whose run was called: "ControlTree" or "ShrubberyBT"
    held,           \* ShrubberyBT.control_tree, None while no ShrubberyBT exists
    stack,          \* the activations of run_from, innermost last
    result,         \* what run returned, None before it returns
    running_left,   \* how many more times the hook may answer Running
    events,         \* history: hook calls, child visits, updates, resets
    call,           \* history: the last call of the manipulation API
    dispatch        \* the LeafDispatch a TaskHook refers to

vars == << nodes, tree, builder, layer_id, phase, build_result, api, held, stack, result,
           running_left, events, call, dispatch >>

ThisTree == [nodes |-> nodes, tree |-> tree]

Event(e, n, c, s) == [ev |-> e, node |-> n, child |-> c, status |-> s]

NoCall == [op |-> "None"]

InitWith(budget) ==
    /\ nodes = NewTree.nodes
    /\ tree = NewTree.tree
    /\ builder \in {"ControlTree", "BTBuilder"}
    /\ layer_id = ROOT_ID
    /\ phase = "build"
    /\ build_result = None
    /\ api = "None"
    /\ held = None
    /\ stack = << >>
    /\ result = None
    /\ running_left = budget
    /\ events = << >>
    /\ call = NoCall
    /\ dispatch = NewDispatch

Init == InitWith(MaxRunning)

\* a hook that answers Running any number of times up to MaxRunning, none
\* included
InitAnyHook == \E budget \in 0..MaxRunning : InitWith(budget)

\* ------------------------------------------------------------ building
\* add_child_with_priority(parent_id, child, priority); add_child is the
\* call with priority usize::MAX. The cycle check either returns, and an Err
\* removes the node again, or ends the program
AddChildWithPriority(parent_id, child, priority) ==
    /\ phase = "build"
    /\ builder \in {"ControlTree", "Manipulation", "Slow"}
    /\ Len(nodes) <= MaxNodes
    /\ \E a \in {AddChildUncheckedWithPriority(ThisTree, parent_id, child,
                                               priority)} :
       \E r \in {RecurseChildrenCheckCycles(a.tree, parent_id, << >>,
                                            StackDepth)} :
          /\ nodes' = a.nodes
          /\ tree' = IF r = "CycleDetected" THEN Remove(a.tree, a.id)
                     ELSE a.tree
          /\ phase' = IF r \in {"Ok", "CycleDetected"} THEN phase
                      ELSE "crashed"
          /\ call' = [op |-> "add_child_with_priority",
                      parent_id |-> parent_id, child |-> child,
                      priority |-> priority, pre |-> ThisTree,
                      ret |-> IF r = "Ok" THEN [err |-> "Ok", id |-> a.id]
                              ELSE [err |-> r]]
    /\ UNCHANGED << builder, layer_id, build_result, api, held, stack,
                    result, running_left, events, dispatch >>

\* callers give children to Root and Control nodes only
AddChild ==
    \E parent_id \in 0..(Len(nodes) - 1), child \in NewNodes :
        /\ ~is_leaf(NodeOf(nodes, parent_id))
        /\ AddChildWithPriority(parent_id, child, UsizeMax)

\* CTreeLayerBuilder::next_layer (sequence, fallback, parallel, decorator,
\* control_node): the node goes under the open layer, which it then becomes.
\* A layer function adds its nested control node last, so no layer is
\* reopened.
NextLayer(node) ==
    /\ phase = "build"
    /\ builder = "BTBuilder"
    /\ Len(nodes) <= MaxNested
    /\ ~is_leaf(node)
    /\ LET a == AddChildUnchecked(ThisTree, layer_id, node)
       IN /\ nodes' = a.nodes
          /\ tree' = a.tree
          /\ layer_id' = a.id
    /\ UNCHANGED << builder, phase, build_result, api, held, stack, result,
                    running_left, events,
                    call, dispatch >>

\* CTreeLayerBuilder::leaf_node (BTLayer::execute / condition)
LeafNodeAdd ==
    /\ phase = "build"
    /\ builder = "BTBuilder"
    /\ Len(nodes) <= MaxNested
    /\ LET a == AddChildUnchecked(ThisTree, layer_id, LeafNode)
       IN /\ nodes' = a.nodes
          /\ tree' = a.tree
    /\ UNCHANGED << builder, layer_id, phase, build_result, api, held, stack,
                    result, running_left, events,
                    call, dispatch >>

\* CTreeBuilder::build / BTBuilder::build: validate, then hand the tree over
Build ==
    /\ phase = "build"
    /\ builder = "BTBuilder"
    /\ \E r \in ValidateBtRules(ThisTree) :
        /\ build_result' = Some(r)
        /\ phase' = IF r = Ok THEN "built" ELSE "rejected"
        /\ held' = IF r = Ok THEN Some(ThisTree) ELSE None
    /\ UNCHANGED << nodes, tree, builder, layer_id, api, stack, result,
                    running_left, events,
                    call, dispatch >>

\* ------------------------------------------------------------- running
\* the activation record of run_from_with_update_callback(node_id, ..):
\* entering it ticks the node once (mod.rs line 113)
Frame(node_id, node_status) ==
    [node_id |-> node_id, node_status |-> node_status, pc |-> "while",
     children |-> << >>, i |-> 0]

TickAt(ns, id) ==
    LET t == CTreeNodeTick(NodeOf(ns, id))
    IN [nodes |-> SetNode(ns, id, t.self), ret |-> t.ret]

\* the update handed to the child it is about
ChildUpdatedAtChild(ns, id, update) ==
    SetNode(ns, update.child_id,
            CTreeNodeChildUpdated(NodeOf(ns, update.child_id), update))

ChildUpdatedAt(ns, id, update) ==
    SetNode(ns, id, CTreeNodeChildUpdated(NodeOf(ns, id), update))

Top == stack[Len(stack)]
SetTop(f) == [stack EXCEPT ![Len(stack)] = f]

\* ControlTree::run is called on the tree as it stands (no build needed)
Run ==
    /\ phase = "build"
    /\ builder \in {"ControlTree", "Splice", "Dispatch", "Slow"}
    /\ phase' = "run"
    /\ api' = "ControlTree"
    /\ UNCHANGED << nodes, tree, builder, layer_id, build_result, held,
                    stack, result, running_left, events,
                    call, dispatch >>

\* ShrubberyBT::run: the tree is taken out of the object (mem::take leaves
\* ControlTree::default() behind) and ControlTree::run runs on the local
BTRun ==
    /\ phase = "built"
    /\ phase' = "run"
    /\ api' = "ShrubberyBT"
    /\ held' = Some(NewTree)
    /\ UNCHANGED << nodes, tree, builder, layer_id, build_result, stack,
                    result, running_left, events,
                    call, dispatch >>

\* run: while self.status() == Running { self.run_from(ROOT_ID, hook) }
RunIterate ==
    /\ phase = "run"
    /\ stack = << >>
    /\ TreeStatus(nodes) = Running
    /\ LET t == TickAt(nodes, ROOT_ID)
       IN /\ nodes' = t.nodes
          /\ stack' = << Frame(ROOT_ID, t.ret) >>
    /\ UNCHANGED << tree, builder, layer_id, phase, build_result, api, held,
                    result, running_left, events,
                    call, dispatch >>

\* run without its loop: self.status() is returned after any pass
RunReturnAfterOnePass ==
    /\ phase = "run"
    /\ stack = << >>
    /\ phase' = "done"
    /\ result' = Some(TreeStatus(nodes))
    /\ UNCHANGED << nodes, tree, builder, layer_id, build_result, api, held,
                    stack, running_left, events,
                    call, dispatch >>

\* run: the loop ends, self.status() is returned
RunReturn ==
    /\ phase = "run"
    /\ stack = << >>
    /\ TreeStatus(nodes) # Running
    /\ phase' = "done"
    /\ result' = Some(TreeStatus(nodes))
    /\ UNCHANGED << nodes, tree, builder, layer_id, build_result, api, held,
                    stack, running_left, events,
                    call, dispatch >>

\* a pass that starts at the second child
WhileEnterSkipFirst ==
    /\ phase = "run"
    /\ stack # << >>
    /\ Top.pc = "while"
    /\ is_running(Top.node_status)
    /\ stack' = SetTop([Top EXCEPT !.pc = "for",
                                   !.children = Children(tree, Top.node_id),
                                   !.i = 2])
    /\ UNCHANGED << nodes, tree, builder, layer_id, phase, build_result, api,
                    held, result, running_left, events,
                    call, dispatch >>

\* while node_status.is_running(): a pass starts with a snapshot of the
\* children
WhileEnter ==
    /\ phase = "run"
    /\ stack # << >>
    /\ Top.pc = "while"
    /\ is_running(Top.node_status)
    /\ Top.node_id \in DOMAIN tree
    /\ stack' = SetTop([Top EXCEPT !.pc = "for",
                                   !.children = Children(tree, Top.node_id),
                                   !.i = 1])
    /\ UNCHANGED << nodes, tree, builder, layer_id, phase, build_result, api,
                    held, result, running_left, events,
                    call, dispatch >>

\* run_from returns node_status; the caller (the parent's pass) delivers it
\* to the parent as a ChildUpdate and moves to the next child
RunFromReturn ==
    /\ phase = "run"
    /\ stack # << >>
    /\ Top.pc = "while"
    /\ ~is_running(Top.node_status)
    /\ IF Len(stack) = 1
       THEN /\ stack' = << >>
            /\ UNCHANGED << nodes, events >>
       ELSE LET g == stack[Len(stack) - 1]
                update == ChildUpdate(Top.node_status, Top.node_id)
            IN /\ nodes' = ChildUpdatedAt(nodes, g.node_id, update)
               /\ stack' = [SubSeq(stack, 1, Len(stack) - 1)
                              EXCEPT ![Len(stack) - 1] =
                                  [g EXCEPT !.i = @ + 1]]
               /\ events' = Append(events,
                     Event("update", g.node_id, Top.node_id,
                           Top.node_status))
    /\ UNCHANGED << tree, builder, layer_id, phase, build_result, api, held,
                    result, running_left,
                    call, dispatch >>

InFor == /\ phase = "run"
         /\ stack # << >>
         /\ Top.pc = "for"
         /\ Top.i <= Len(Top.children)

Child == Top.children[Top.i]

\* the node is ticked before each child; a terminal status breaks the loop
ForBreak ==
    /\ InFor
    /\ \E t \in {TickAt(nodes, Top.node_id)} :
          /\ is_terminal(t.ret)
          /\ nodes' = t.nodes
          /\ stack' = SetTop([Top EXCEPT !.pc = "seen"])
    /\ UNCHANGED << tree, builder, layer_id, phase, build_result, api, held,
                    result, running_left, events,
                    call, dispatch >>

\* a child whose cached status is Success is not run again
SkipSuccess ==
    /\ InFor
    /\ \E t \in {TickAt(nodes, Top.node_id)} :
          /\ ~is_terminal(t.ret)
          /\ is_success(UnwrapOrDefault(NodeOf(t.nodes, Child).status))
          /\ nodes' = t.nodes
          /\ stack' = SetTop([Top EXCEPT !.i = @ + 1])
    /\ UNCHANGED << tree, builder, layer_id, phase, build_result, api, held,
                    result, running_left, events,
                    call, dispatch >>

\* the answers the hook may give
HookAnswers == {Success, Failure} \cup
               (IF running_left > 0 THEN {Running} ELSE {})

\* a pass that goes on hooking leaves after the node's tick became terminal
HookLeafNoBreak(status) ==
    /\ InFor
    /\ status \in HookAnswers
    /\ \E t \in {TickAt(nodes, Top.node_id)} :
          /\ ~is_success(UnwrapOrDefault(NodeOf(t.nodes, Child).status))
          /\ is_leaf(NodeOf(t.nodes, Child))
          /\ \E hooked \in {SetNode(t.nodes, Child,
                                set_status(NodeOf(t.nodes, Child), status))} :
                nodes' = ChildUpdatedAt(hooked, Top.node_id,
                                        ChildUpdate(status, Child))
    /\ stack' = SetTop([Top EXCEPT !.i = @ + 1])
    /\ running_left' = IF status = Running THEN running_left - 1
                       ELSE running_left
    /\ events' = events \o << Event("hook", Child, Child, status),
                              Event("update", Top.node_id, Child, status) >>
    /\ UNCHANGED << tree, builder, layer_id, phase, build_result, api, held,
                    result,
                    call, dispatch >>

\* a leaf child: the hook's answer is stored on the leaf and delivered to
\* the node
HookLeaf(status) ==
    /\ InFor
    /\ status \in HookAnswers
    /\ \E t \in {TickAt(nodes, Top.node_id)} :
          /\ ~is_terminal(t.ret)
          /\ ~is_success(UnwrapOrDefault(NodeOf(t.nodes, Child).status))
          /\ is_leaf(NodeOf(t.nodes, Child))
          /\ \E hooked \in {SetNode(t.nodes, Child,
                                set_status(NodeOf(t.nodes, Child), status))} :
                nodes' = ChildUpdatedAt(hooked, Top.node_id,
                                        ChildUpdate(status, Child))
    /\ stack' = SetTop([Top EXCEPT !.i = @ + 1])
    /\ running_left' = IF status = Running THEN running_left - 1
                       ELSE running_left
    /\ events' = events \o << Event("hook", Child, Child, status),
                              Event("update", Top.node_id, Child, status) >>
    /\ UNCHANGED << tree, builder, layer_id, phase, build_result, api, held,
                    result,
                    call, dispatch >>

\* a Root/Control child whose tick, whatever it is, is delivered at once
TickControlChildAnyStatus ==
    /\ InFor
    /\ \E t \in {TickAt(nodes, Top.node_id)} :
          /\ ~is_terminal(t.ret)
          /\ ~is_success(UnwrapOrDefault(NodeOf(t.nodes, Child).status))
          /\ ~is_leaf(NodeOf(t.nodes, Child))
          /\ \E c \in {TickAt(t.nodes, Child)} :
                /\ nodes' = ChildUpdatedAt(c.nodes, Top.node_id,
                                           ChildUpdate(c.ret, Child))
                /\ events' = events \o
                      << Event("tick", Child, Child, c.ret),
                         Event("update", Top.node_id, Child, c.ret) >>
    /\ stack' = SetTop([Top EXCEPT !.i = @ + 1])
    /\ UNCHANGED << tree, builder, layer_id, phase, build_result, api, held,
                    result, running_left,
                    call, dispatch >>

\* a Root/Control child whose tick is terminal: that status is delivered
TickControlChild ==
    /\ InFor
    /\ \E t \in {TickAt(nodes, Top.node_id)} :
          /\ ~is_terminal(t.ret)
          /\ ~is_success(UnwrapOrDefault(NodeOf(t.nodes, Child).status))
          /\ ~is_leaf(NodeOf(t.nodes, Child))
          /\ \E c \in {TickAt(t.nodes, Child)} :
                /\ ~is_running(c.ret)
                /\ nodes' = ChildUpdatedAt(c.nodes, Top.node_id,
                                           ChildUpdate(c.ret, Child))
                /\ events' = events \o
                      << Event("tick", Child, Child, c.ret),
                         Event("update", Top.node_id, Child, c.ret) >>
    /\ stack' = SetTop([Top EXCEPT !.i = @ + 1])
    /\ UNCHANGED << tree, builder, layer_id, phase, build_result, api, held,
                    result, running_left,
                    call, dispatch >>

\* a Root/Control child whose tick is Running: run_from recurses into it
DescendControlChild ==
    /\ InFor
    /\ \E t \in {TickAt(nodes, Top.node_id)} :
          /\ ~is_terminal(t.ret)
          /\ ~is_success(UnwrapOrDefault(NodeOf(t.nodes, Child).status))
          /\ ~is_leaf(NodeOf(t.nodes, Child))
          /\ \E c \in {TickAt(t.nodes, Child)} :
             \E e \in {TickAt(c.nodes, Child)} :
                /\ is_running(c.ret)
                /\ nodes' = e.nodes
                /\ stack' = Append(stack, Frame(Child, e.ret))
                /\ events' = Append(events,
                                    Event("tick", Child, Child, c.ret))
    /\ UNCHANGED << tree, builder, layer_id, phase, build_result, api, held,
                    result, running_left,
                    call, dispatch >>

\* end of a pass: all_children_seen, tick, handle_reset_requests
ResetEvents(node_id, reset) ==
    [k \in 1..Len(reset) |-> Event("reset", node_id, reset[k], "None")]

EndPass ==
    /\ phase = "run"
    /\ stack # << >>
    /\ \/ Top.pc = "seen"
       \/ Top.pc = "for" /\ Top.i > Len(Top.children)
    /\ \E seen \in {SetNode(nodes, Top.node_id,
                       CTreeNodeAllChildrenSeen(NodeOf(nodes, Top.node_id)))} :
       \E t \in {TickAt(seen, Top.node_id)} :
       LET id == Top.node_id
           reset == IF is_control(NodeOf(t.nodes, id))
                    THEN NodeOf(t.nodes, id).reset_requests ELSE << >>
       IN /\ nodes' = HandleResetRequests(t.nodes, tree, id)
          /\ stack' = SetTop([Top EXCEPT !.pc = "while",
                                         !.node_status = t.ret])
          /\ events' = events \o ResetEvents(id, reset)
    /\ UNCHANGED << tree, builder, layer_id, phase, build_result, api, held,
                    result, running_left,
                    call, dispatch >>

Next ==
    \/ AddChild
    \/ \E node \in NewNodes : NextLayer(node)
    \/ LeafNodeAdd
    \/ Build
    \/ Run
    \/ BTRun
    \/ RunIterate
    \/ RunReturn
    \/ WhileEnter
    \/ RunFromReturn
    \/ ForBreak
    \/ SkipSuccess
    \/ \E status \in Status : HookLeaf(status)
    \/ TickControlChild
    \/ DescendControlChild
    \/ EndPass

Spec == Init /\ [][Next]_vars

\* the steps the engine takes by itself between the call of run and its
\* return
RunStep ==
    \/ RunIterate
    \/ RunReturn
    \/ WhileEnter
    \/ RunFromReturn
    \/ ForBreak
    \/ SkipSuccess
    \/ \E status \in Status : HookLeaf(status)
    \/ TickControlChild
    \/ DescendControlChild
    \/ EndPass

\* run is sequential code: between its call and its return it keeps taking
\* steps while one is enabled
FairRunSpec == InitAnyHook /\ [][Next]_vars /\ WF_vars(RunStep)

\* ------------------------------------------------------- manipulation
\* a ControlTree edited through its manipulation API and then validated by
\* into_builder().build()
ManipInit ==
    /\ nodes = NewTree.nodes
    /\ tree = NewTree.tree
    /\ builder = "Manipulation"
    /\ layer_id = ROOT_ID
    /\ phase = "build"
    /\ build_result = None
    /\ api = "None"
    /\ held = None
    /\ stack = << >>
    /\ result = None
    /\ running_left = 0
    /\ events = << >>
    /\ call = NoCall
    /\ dispatch = NewDispatch

\* the nodes callers hand in: new ones, or clones of nodes of the arena
\* (which carry their id)
ManipControls == {ControlNode(NewSequence), ControlNode(NewInverter)}
ManipNodes == ManipControls \cup {LeafNode}
Priorities == {0, 1, UsizeMax}

ManipAddChild ==
    \E parent_id \in 0..(Len(nodes) - 1),
       child \in ManipNodes \cup {nodes[k] : k \in 2..Len(nodes)},
       priority \in Priorities :
        /\ builder = "Manipulation"
        /\ AddChildWithPriority(parent_id, child, priority)

\* remove(id)
ManipRemove ==
    \E id \in 0..(Len(nodes) - 1) :
        /\ phase = "build"
        /\ builder = "Manipulation"
        /\ tree' = Remove(tree, id)
        /\ call' = [op |-> "remove", id |-> id, pre |-> ThisTree]
        /\ UNCHANGED << nodes, builder, layer_id, phase, build_result, api,
                        held, stack, result, running_left, events, dispatch >>

\* the slices handed to insert_between as move_down
MaxMoveDown == 2
MoveDowns ==
    UNION {[1..n -> 0..(Len(nodes) - 1)] : n \in 1..MaxMoveDown}

\* insert_between(parent_id, move_down, node)
ManipInsertBetween ==
    \E parent_id \in 0..(Len(nodes) - 1), move_down \in MoveDowns,
       node \in ManipControls :
        /\ phase = "build"
        /\ builder = "Manipulation"
        /\ Len(nodes) <= MaxNodes
        /\ \E r \in {InsertBetween(ThisTree, parent_id, move_down, node)} :
            /\ nodes' = IF IsCrash(r) THEN nodes ELSE r.nodes
            /\ tree' = IF IsCrash(r) THEN tree ELSE r.tree
            /\ phase' = IF IsCrash(r) THEN "crashed" ELSE phase
            /\ call' = [op |-> "insert_between", parent_id |-> parent_id,
                        move_down |-> move_down, node |-> node,
                        pre |-> ThisTree,
                        ret |-> IF IsCrash(r) THEN r
                                ELSE [err |-> "Ok", id |-> r.id]]
        /\ UNCHANGED << builder, layer_id, build_result, api, held, stack,
                        result, running_left, events, dispatch >>

\* as_subtree(start_at): the tree itself is only read
ManipAsSubtree ==
    \E start_at \in 0..(Len(nodes) - 1) :
        /\ phase = "build"
        /\ builder = "Manipulation"
        /\ \E r \in {AsSubtree(ThisTree, start_at)} :
            /\ phase' = IF IsCrash(r) THEN "crashed" ELSE phase
            /\ call' = [op |-> "as_subtree", start_at |-> start_at,
                        pre |-> ThisTree, ret |-> r]
        /\ UNCHANGED << nodes, tree, builder, layer_id, build_result, api,
                        held, stack, result, running_left, events, dispatch >>

\* the trees handed to add_subtree_with_priority: root -> leaf and
\* root -> Sequence -> leaf as a builder makes them, or the tree the last
\* call, an as_subtree, returned
LeafTree == LET a == AddChildUnchecked(NewTree, ROOT_ID, LeafNode)
            IN [nodes |-> a.nodes, tree |-> a.tree]
SequenceTree ==
    LET a == AddChildUnchecked(NewTree, ROOT_ID, ControlNode(NewSequence))
        b == AddChildUnchecked([nodes |-> a.nodes, tree |-> a.tree], a.id,
                               LeafNode)
    IN [nodes |-> b.nodes, tree |-> b.tree]
SpliceTrees ==
    {LeafTree, SequenceTree}
    \cup (IF call.op = "as_subtree" /\ ~IsCrash(call.ret) THEN {call.ret}
          ELSE {})

\* add_subtree_with_priority(from, priority, subtree); add_subtree_as_first_
\* child and add_subtree_as_last_child are the calls with priority 0 and
\* usize::MAX
ManipAddSubtree ==
    \E from \in 0..(Len(nodes) - 1), priority \in Priorities,
       subtree \in SpliceTrees :
        /\ phase = "build"
        /\ builder = "Manipulation"
        /\ Len(nodes) + Len(subtree.nodes) <= MaxNodes + 1
        /\ \E r \in {AddSubtreeWithPriority(ThisTree, from, priority,
                                            subtree)} :
            /\ nodes' = IF IsCrash(r) THEN nodes ELSE r.nodes
            /\ tree' = IF IsCrash(r) THEN tree ELSE r.tree
            /\ phase' = IF IsCrash(r) THEN "crashed" ELSE phase
            /\ call' = [op |-> "add_subtree_with_priority", from |-> from,
                        priority |-> priority, subtree |-> subtree,
                        pre |-> ThisTree,
                        ret |-> IF IsCrash(r) THEN r
                                ELSE [err |-> "Ok", id |-> r.id]]
        /\ UNCHANGED << builder, layer_id, build_result, api, held, stack,
                        result, running_left, events, dispatch >>

\* CTreeBuilder::build on the edited tree: validate_bt_rules, then the tree
CTreeBuild ==
    /\ phase = "build"
    /\ builder = "Manipulation"
    /\ \E r \in ValidateBtRules(ThisTree) :
        /\ build_result' = Some(r)
        /\ phase' = IF r = Ok THEN "built"
                    ELSE IF IsCrash(r) THEN "crashed" ELSE "rejected"
    /\ UNCHANGED << nodes, tree, builder, layer_id, api, held, stack, result,
                    running_left, events, call, dispatch >>

ManipNext ==
    \/ ManipAddChild
    \/ ManipRemove
    \/ ManipInsertBetween
    \/ ManipAsSubtree
    \/ ManipAddSubtree
    \/ CTreeBuild

ManipSpec == ManipInit /\ [][ManipNext]_vars

\* --------------------------------------------- ids from outside the arena
\* insert_between takes any slice of ids: besides the ids of the arena, an
\* id that names no node of it, before or after the insertion
ForeignId == Len(nodes) + 1
MoveDownsAny ==
    UNION {[1..n -> 0..(Len(nodes) - 1) \cup {ForeignId}] : n \in 1..MaxMoveDown}

ManipInsertBetweenAny ==
    \E parent_id \in 0..(Len(nodes) - 1), move_down \in MoveDownsAny,
       node \in {ControlNode(NewSequence)} :
        /\ phase = "build"
        /\ builder = "Manipulation"
        /\ Len(nodes) <= MaxNodes
        /\ \E r \in {InsertBetween(ThisTree, parent_id, move_down, node)} :
            /\ nodes' = IF IsCrash(r) THEN nodes ELSE r.nodes
            /\ tree' = IF IsCrash(r) THEN tree ELSE r.tree
            /\ phase' = IF IsCrash(r) THEN "crashed" ELSE phase
            /\ call' = [op |-> "insert_between", parent_id |-> parent_id,
                        move_down |-> move_down, node |-> node,
                        pre |-> ThisTree,
                        ret |-> IF IsCrash(r) THEN r
                                ELSE [err |-> "Ok", id |-> r.id]]
        /\ UNCHANGED << builder, layer_id, build_result, api, held, stack,
                        result, running_left, events, dispatch >>

\* the operations that edit the arena and the map
ArenaNext ==
    \/ ManipAddChild
    \/ ManipRemove
    \/ ManipInsertBetweenAny
    \/ ManipAddSubtree

ArenaSpec == ManipInit /\ [][ArenaNext]_vars

\* ------------------------------------------- extraction and re-attachment
\* trees as a builder makes them, from which a portion is extracted:
\* root -> Sequence -> (leaf, leaf) and root -> Sequence -> Sequence -> leaf
TwoLeafTree ==
    LET a == AddChildUnchecked(NewTree, ROOT_ID, ControlNode(NewSequence))
        b == AddChildUnchecked([nodes |-> a.nodes, tree |-> a.tree], a.id,
                               LeafNode)
        c == AddChildUnchecked([nodes |-> b.nodes, tree |-> b.tree], a.id,
                               LeafNode)
    IN [nodes |-> c.nodes, tree |-> c.tree]
NestedTree ==
    LET a == AddChildUnchecked(NewTree, ROOT_ID, ControlNode(NewSequence))
        b == AddChildUnchecked([nodes |-> a.nodes, tree |-> a.tree], a.id,
                               ControlNode(NewSequence))
        c == AddChildUnchecked([nodes |-> b.nodes, tree |-> b.tree], b.id,
                               LeafNode)
    IN [nodes |-> c.nodes, tree |-> c.tree]
\* root -> Parallel -> (Sequence -> leaf, leaf)
ParallelTree ==
    LET a == AddChildUnchecked(NewTree, ROOT_ID, ControlNode(NewParallel))
        b == AddChildUnchecked([nodes |-> a.nodes, tree |-> a.tree], a.id,
                               ControlNode(NewSequence))
        c == AddChildUnchecked([nodes |-> b.nodes, tree |-> b.tree], b.id,
                               LeafNode)
        d == AddChildUnchecked([nodes |-> c.nodes, tree |-> c.tree], a.id,
                               LeafNode)
    IN [nodes |-> d.nodes, tree |-> d.tree]
SpliceOriginals == {TwoLeafTree, NestedTree, ParallelTree}

SpliceInit ==
    /\ \E t \in SpliceOriginals : nodes = t.nodes /\ tree = t.tree
    /\ builder = "Splice"
    /\ layer_id = ROOT_ID
    /\ phase = "build"
    /\ build_result = None
    /\ api = "None"
    /\ held = None
    /\ stack = << >>
    /\ result = None
    /\ running_left = MaxRunning
    /\ events = << >>
    /\ call = NoCall
    /\ dispatch = NewDispatch

\* as_subtree(start_at) of the tree, then add_subtree_with_priority(ROOT_ID,
\* priority, that subtree) on a new ControlTree, which becomes the tree that
\* is run; old_to_new is the map as_subtree kept from the ids of the tree
\* to the ids of the subtree
Reattach ==
    \E start_at \in 1..(Len(nodes) - 1), priority \in Priorities :
        /\ phase = "build"
        /\ builder = "Splice"
        /\ call = NoCall
    /\ dispatch = NewDispatch
        /\ \E a \in {AddChildUnchecked(
                         NewTree, ROOT_ID,
                         unset_id(NodeOf(nodes, start_at)))} :
           \E d \in {ExploreDownWithDeps(
                         ThisTree, << start_at >>,
                         [subtree |-> [nodes |-> a.nodes, tree |-> a.tree],
                          old_to_new |-> (ROOT_ID :> ROOT_ID)
                                         @@ (start_at :> a.id)],
                         MaxExplore)} :
           \E r \in {AddSubtreeWithPriority(NewTree, ROOT_ID, priority,
                                            AsSubtree(ThisTree, start_at))} :
              /\ ~IsCrash(d)
              /\ ~IsCrash(r)
              /\ nodes' = r.nodes
              /\ tree' = r.tree
              /\ call' = [op |-> "reattach", start_at |-> start_at,
                          priority |-> priority, pre |-> ThisTree,
                          subtree |-> AsSubtree(ThisTree, start_at),
                          old_to_new |-> d.old_to_new,
                          ret |-> [err |-> "Ok", id |-> r.id]]
        /\ UNCHANGED << builder, layer_id, phase, build_result, api, held,
                        stack, result, running_left, events, dispatch >>

\* self.children(&node_id) of a node without entry in the map: the index
\* panics and the run ends there
RunPanics ==
    /\ phase = "run"
    /\ stack # << >>
    /\ Top.pc = "while"
    /\ is_running(Top.node_status)
    /\ Top.node_id \notin DOMAIN tree
    /\ phase' = "crashed"
    /\ UNCHANGED << nodes, tree, builder, layer_id, build_result, api, held,
                    stack, result, running_left, events, call, dispatch >>

SpliceNext ==
    \/ Reattach
    \/ Run
    \/ RunIterate
    \/ RunReturn
    \/ WhileEnter
    \/ RunFromReturn
    \/ ForBreak
    \/ SkipSuccess
    \/ \E status \in Status : HookLeaf(status)
    \/ TickControlChild
    \/ DescendControlChild
    \/ EndPass
    \/ RunPanics

SpliceSpec == SpliceInit /\ [][SpliceNext]_vars

\* ----------------------------------------------- running with a TaskHook
\* a ControlTree built with add_child, a LeafDispatch filled with
\* add_executor / add_conditional, and ControlTree::run with the TaskHook
\* of that dispatch
MaxActions == 2

DispatchInit ==
    /\ nodes = NewTree.nodes
    /\ tree = NewTree.tree
    /\ builder = "Dispatch"
    /\ layer_id = ROOT_ID
    /\ phase = "build"
    /\ build_result = None
    /\ api = "None"
    /\ held = None
    /\ stack = << >>
    /\ result = None
    /\ running_left = MaxRunning
    /\ events = << >>
    /\ call = NoCall
    /\ dispatch = NewDispatch

DispatchAddChild ==
    \E parent_id \in 0..(Len(nodes) - 1),
       child \in {LeafNode, ControlNode(NewFallback), ControlNode(NewParallel)} :
        /\ phase = "build"
        /\ builder = "Dispatch"
        /\ Len(nodes) <= MaxNodes
        /\ ~is_leaf(NodeOf(nodes, parent_id))
        /\ \E a \in {AddChildUnchecked(ThisTree, parent_id, child)} :
              /\ nodes' = a.nodes
              /\ tree' = a.tree
        /\ UNCHANGED << builder, layer_id, phase, build_result, api, held,
                        stack, result, running_left, events, call, dispatch >>

\* LeafDispatch::add_executor(id, executor)
DispatchAddExecutor ==
    \E id \in 1..MaxNodes, executor \in Status :
        /\ phase = "build"
        /\ builder = "Dispatch"
        /\ Len(dispatch.executors) + Len(dispatch.conditionals) < MaxActions
        /\ dispatch' = AddExecutor(dispatch, id, executor)
        /\ events' = Append(events, Event("register", id, id, executor))
        /\ UNCHANGED << nodes, tree, builder, layer_id, phase, build_result,
                        api, held, stack, result, running_left, call >>

\* LeafDispatch::add_conditional(id, conditional)
DispatchAddConditional ==
    \E id \in 1..MaxNodes, conditional \in {Success, Failure} :
        /\ phase = "build"
        /\ builder = "Dispatch"
        /\ Len(dispatch.executors) + Len(dispatch.conditionals) < MaxActions
        /\ dispatch' = AddConditional(dispatch, id, conditional)
        /\ events' = Append(events, Event("register", id, id, conditional))
        /\ UNCHANGED << nodes, tree, builder, layer_id, phase, build_result,
                        api, held, stack, result, running_left, call >>

\* TaskHook::hook(&leaf) called with a leaf of the caller: one that was
\* never added to a tree, or a copy of one of the tree; the scenario ends
\* with the call
HookCall ==
    \E leaf \in {LeafNode} \cup {nodes[k] : k \in {j \in 1..Len(nodes) :
                                                    is_leaf(nodes[j])}} :
        /\ phase = "build"
        /\ builder = "Dispatch"
        /\ call' = [op |-> "hook", leaf |-> leaf, pre |-> ThisTree,
                    ret |-> TaskHookHook(dispatch, leaf)]
        /\ phase' = "hooked"
        /\ UNCHANGED << nodes, tree, builder, layer_id, build_result,
                        api, held, stack, result, running_left, events,
                        dispatch >>

\* a leaf child under ControlTree::run with the TaskHook: the status of the
\* dispatch is stored on the leaf and delivered to the node; an action
\* answers Running while the budget lasts
HookLeafDispatch ==
    /\ InFor
    /\ builder = "Dispatch"
    /\ \E t \in {TickAt(nodes, Top.node_id)} :
          /\ ~is_terminal(t.ret)
          /\ ~is_success(UnwrapOrDefault(NodeOf(t.nodes, Child).status))
          /\ is_leaf(NodeOf(t.nodes, Child))
          /\ \E status \in {TaskHookHook(dispatch, NodeOf(t.nodes, Child))} :
                /\ status = Running => running_left > 0
                /\ \E hooked \in {SetNode(t.nodes, Child,
                                     set_status(NodeOf(t.nodes, Child),
                                                status))} :
                      nodes' = ChildUpdatedAt(hooked, Top.node_id,
                                              ChildUpdate(status, Child))
                /\ running_left' = IF status = Running THEN running_left - 1
                                   ELSE running_left
                /\ events' = events \o
                      << Event("hook", Child, Child, status),
                         Event("update", Top.node_id, Child, status) >>
    /\ stack' = SetTop([Top EXCEPT !.i = @ + 1])
    /\ UNCHANGED << tree, builder, layer_id, phase, build_result, api, held,
                    result, call, dispatch >>

DispatchNext ==
    \/ DispatchAddChild
    \/ DispatchAddExecutor
    \/ DispatchAddConditional
    \/ HookCall
    \/ Run
    \/ RunIterate
    \/ RunReturn
    \/ WhileEnter
    \/ RunFromReturn
    \/ ForBreak
    \/ SkipSuccess
    \/ HookLeafDispatch
    \/ TickControlChild
    \/ DescendControlChild
    \/ EndPass

DispatchSpec == DispatchInit /\ [][DispatchNext]_vars

\* ------------------------------------------------ running with slow leaves
\* trees of Sequences, Fallbacks, Parallels and leaves built with
\* add_child, run with a hook that
\* answers Running the first time it sees a leaf and Success afterwards
\* (SlowLeaves); its set `seen` holds the leaves hooked so far
Seen == {events[k].node : k \in {j \in 1..Len(events) : events[j].ev = "hook"}}

SlowLeavesHook(seen, leaf) ==
    IF leaf.id[1] \notin seen THEN Running ELSE Success

SlowInit ==
    /\ nodes = NewTree.nodes
    /\ tree = NewTree.tree
    /\ builder = "Slow"
    /\ layer_id = ROOT_ID
    /\ phase = "build"
    /\ build_result = None
    /\ api = "None"
    /\ held = None
    /\ stack = << >>
    /\ result = None
    /\ running_left = 0
    /\ events = << >>
    /\ call = NoCall
    /\ dispatch = NewDispatch

SlowAddChild ==
    \E parent_id \in 0..(Len(nodes) - 1),
       child \in {LeafNode, ControlNode(NewSequence), ControlNode(NewFallback),
                  ControlNode(NewParallel)} :
        /\ builder = "Slow"
        /\ ~is_leaf(NodeOf(nodes, parent_id))
        /\ AddChildWithPriority(parent_id, child, UsizeMax)

HookLeafSlow ==
    /\ InFor
    /\ builder = "Slow"
    /\ \E t \in {TickAt(nodes, Top.node_id)} :
          /\ ~is_terminal(t.ret)
          /\ ~is_success(UnwrapOrDefault(NodeOf(t.nodes, Child).status))
          /\ is_leaf(NodeOf(t.nodes, Child))
          /\ \E status \in {SlowLeavesHook(Seen, NodeOf(t.nodes, Child))} :
                /\ \E hooked \in {SetNode(t.nodes, Child,
                                     set_status(NodeOf(t.nodes, Child),
                                                status))} :
                      nodes' = ChildUpdatedAt(hooked, Top.node_id,
                                              ChildUpdate(status, Child))
                /\ events' = events \o
                      << Event("hook", Child, Child, status),
                         Event("update", Top.node_id, Child, status) >>
    /\ stack' = SetTop([Top EXCEPT !.i = @ + 1])
    /\ UNCHANGED << tree, builder, layer_id, phase, build_result, api, held,
                    result, running_left, call, dispatch >>

SlowNext ==
    \/ SlowAddChild
    \/ Run
    \/ RunIterate
    \/ RunReturn
    \/ WhileEnter
    \/ RunFromReturn
    \/ ForBreak
    \/ SkipSuccess
    \/ HookLeafSlow
    \/ TickControlChild
    \/ DescendControlChild
    \/ EndPass

SlowSpec == SlowInit /\ [][SlowNext]_vars

\* ------------------------------------------------- vocabulary of the claims
Ids == 0..(Len(nodes) - 1)

\* "Leaf", or the variant of the control node (the Root is a Sequence)
TypeOf(id) == IF is_leaf(NodeOf(nodes, id)) THEN "Leaf"
              ELSE NodeOf(nodes, id).node_type.type

StatusOf(id) == NodeOf(nodes, id).status

Validated == ValidateBtRules(ThisTree) = {Ok}

\* position of child c in the child list of p (0 when it is not a child)
IndexOf(p, c) ==
    IF \E k \in 1..Len(tree[p]) : tree[p][k] = c
    THEN CHOOSE k \in 1..Len(tree[p]) : tree[p][k] = c
    ELSE 0

ChildSet(p) == {tree[p][k] : k \in 1..Len(tree[p])}

\* id and everything below it
RECURSIVE SubtreeOf(_)
SubtreeOf(id) == {id} \cup UNION {SubtreeOf(c) : c \in ChildSet(id)}

\* the leaves below id, left to right, depth first
RECURSIVE LeafOrder(_)
RECURSIVE LeafOrderOfList(_)
LeafOrder(id) == IF TypeOf(id) = "Leaf" THEN << id >>
                 ELSE LeafOrderOfList(tree[id])
LeafOrderOfList(l) == IF l = << >> THEN << >>
                      ELSE LeafOrder(Head(l)) \o LeafOrderOfList(Tail(l))

EventIdx == 1..Len(events)
IsHook(k) == events[k].ev = "hook"
\* a child is visited when the hook runs on it (a leaf) or when its parent's
\* pass ticks it (a Root/Control node)
IsVisit(k) == events[k].ev \in {"hook", "tick"}
IsUpdate(k) == events[k].ev = "update"
\* a reset_branch(from) clears id when id lies in the subtree of from
IsResetOf(k, id) == events[k].ev = "reset" /\ id \in SubtreeOf(events[k].child)

Hooks == SelectSeq(events, LAMBDA e : e.ev = "hook")
HookIds == [k \in 1..Len(Hooks) |-> Hooks[k].node]
HookCount(id) == Cardinality({k \in EventIdx : IsHook(k) /\ events[k].node = id})

AllAnswers(s) == \A k \in EventIdx : IsHook(k) => events[k].status = s

\* no reset_branch has cleared id after event a (up to event b)
NoResetBetween(id, a, b) == \A k \in (a + 1)..(b - 1) : ~IsResetOf(k, id)
NoResetSince(id, a) == NoResetBetween(id, a, Len(events) + 1)

SequenceLike(id) == TypeOf(id) = "Sequence"

Terminal(o) == o \in {Some(Success), Some(Failure)}

IsPrefix(a, b) == Len(a) <= Len(b) /\ SubSeq(b, 1, Len(a)) = a

\* ---------------------------------------------------------------------- C1
\* C1: whenever run has returned, the status it returned is Success or
\* Failure, never Running, whatever the tree and the hook's answers.
RunNeverReturnsRunning == phase = "done" => Terminal(result)

\* a run that met a Running answer on the way and has returned
RunReturnedWitness ==
    /\ phase = "done"
    /\ \E k \in EventIdx : IsHook(k) /\ events[k].status = Running

\* ---------------------------------------------------------------------- C2
\* C2: on a tree that build accepts, once the hook answers only Success or
\* Failure on every leaf visit (from the start of the run or from any later
\* point of it), the run eventually returns.
RunTerminates ==
    (phase = "run" /\ Validated /\ running_left = 0) ~> (phase = "done")

\* a validated tree with a Repeater that used up its retries, run to the end
\* under a hook that never answered Running
RunTerminatedWitness ==
    /\ phase = "done"
    /\ Validated
    /\ \A k \in EventIdx : IsHook(k) => events[k].status # Running
    /\ \E r \in Ids : /\ TypeOf(r) = "Repeater"
                      /\ NodeOf(nodes, r).node_type.init_retry > 1
                      /\ NodeOf(nodes, r).node_type.retry = 0

\* ---------------------------------------------------------------------- C3
\* the tree held by the object run was called on: the ControlTree itself, or
\* the control_tree field of the ShrubberyBT
HeldTree == IF api = "ShrubberyBT" THEN held[1] ELSE ThisTree

\* C3: after run has returned, the cached status of the root of the tree held
\* by the object that run was called on equals the status run returned.
RootStatusIsResult ==
    phase = "done" => Some(TreeStatus(HeldTree.nodes)) = result

\* ---------------------------------------------------------------------- C4
AllSequences == \A id \in Ids : TypeOf(id) \in {"Leaf", "Sequence"}

\* C4: in a tree whose control nodes are all Sequences, while the hook
\* answers Success the leaves are hooked in left-to-right depth-first order,
\* and once run has returned every leaf was hooked exactly once and the
\* result is Success.
HappySequence ==
    (phase \in {"run", "done"} /\ AllSequences /\ AllAnswers(Success)) =>
        /\ IsPrefix(HookIds, LeafOrder(ROOT_ID))
        /\ phase = "done" => /\ HookIds = LeafOrder(ROOT_ID)
                             /\ result = Some(Success)

\* an all-Sequence tree with a nested Sequence and several leaves, run to the
\* end with Success everywhere
HappySequenceWitness ==
    /\ phase = "done"
    /\ AllSequences
    /\ AllAnswers(Success)
    /\ Len(HookIds) >= 2
    /\ \E id \in Ids : id # ROOT_ID /\ TypeOf(id) = "Sequence"

\* ---------------------------------------------------------------------- C5
\* the nodes below the children of p that come after index k
LaterSubtrees(p, k) ==
    UNION {SubtreeOf(tree[p][j]) : j \in (k + 1)..Len(tree[p])}

\* C5: once a Sequence has received Failure from its child at index k, its
\* cached status is Failure and no child at an index greater than k, nor any
\* node below such a child, is visited afterwards; this lasts until a
\* reset_branch clears the Sequence for a new attempt.
SequenceFailsFast ==
    \A a \in EventIdx :
        (IsUpdate(a) /\ SequenceLike(events[a].node)
                     /\ events[a].status = Failure) =>
            LET p == events[a].node
                k == IndexOf(p, events[a].child)
            IN /\ NoResetSince(p, a) => StatusOf(p) = Some(Failure)
               /\ \A b \in (a + 1)..Len(events) :
                     (IsVisit(b) /\ NoResetBetween(p, a, b)) =>
                         events[b].node \notin LaterSubtrees(p, k)

\* a Sequence below the root failed at a child that has later siblings, and
\* the run has returned
SequenceFailsFastWitness ==
    /\ phase = "done"
    /\ \E a \in EventIdx :
          /\ IsUpdate(a)
          /\ events[a].node # ROOT_ID
          /\ SequenceLike(events[a].node)
          /\ events[a].status = Failure
          /\ IndexOf(events[a].node, events[a].child)
                 < Len(tree[events[a].node])

\* ---------------------------------------------------------------------- C6
\* the last event before a at which a reset_branch cleared p (0 if none)
ActivationStart(p, a) ==
    LET resets == {k \in 1..(a - 1) : IsResetOf(k, p)}
    IN IF resets = {} THEN 0
       ELSE CHOOSE k \in resets : \A j \in resets : j <= k

VisitsInActivation(p, c, a) ==
    {b \in EventIdx : /\ b > ActivationStart(p, a)
                      /\ IsVisit(b)
                      /\ events[b].node = c
                      /\ NoResetBetween(p, ActivationStart(p, a), b)}

\* C6: once a Fallback has received Success from its child at index k, its
\* cached status is Success and no child at an index greater than k is
\* visited (until a reset_branch clears the Fallback), and every child before
\* k that returned Failure was visited exactly once in that attempt.
FallbackStopsAtSuccess ==
    \A a \in EventIdx :
        (IsUpdate(a) /\ TypeOf(events[a].node) = "Fallback"
                     /\ events[a].status = Success) =>
            LET p == events[a].node
                k == IndexOf(p, events[a].child)
                start == ActivationStart(p, a)
            IN /\ NoResetSince(p, a) => StatusOf(p) = Some(Success)
               /\ \A b \in (a + 1)..Len(events) :
                     (IsVisit(b) /\ NoResetBetween(p, a, b)) =>
                         events[b].node \notin LaterSubtrees(p, k)
               /\ \A j \in 1..(k - 1) :
                     (\E u \in (start + 1)..(a - 1) :
                          /\ IsUpdate(u)
                          /\ events[u].node = p
                          /\ events[u].child = tree[p][j]
                          /\ events[u].status = Failure) =>
                         Cardinality(VisitsInActivation(p, tree[p][j], a)) = 1

\* a Fallback whose first child failed, whose second succeeded and which has
\* a third child, run to the end
FallbackStopsAtSuccessWitness ==
    /\ phase = "done"
    /\ \E a \in EventIdx, u \in EventIdx :
          /\ u < a
          /\ IsUpdate(a) /\ IsUpdate(u)
          /\ TypeOf(events[a].node) = "Fallback"
          /\ events[u].node = events[a].node
          /\ events[u].status = Failure
          /\ events[a].status = Success
          /\ IndexOf(events[a].node, events[a].child)
                 < Len(tree[events[a].node])

\* ---------------------------------------------------------------------- C7
\* C7: a Parallel whose cached status is terminal has visited every one of
\* its children since it was last cleared, whatever the earlier children
\* returned.
ParallelVisitsAll ==
    \A p \in Ids :
        (TypeOf(p) = "Parallel" /\ Terminal(StatusOf(p))) =>
            \A c \in ChildSet(p) :
                \E b \in EventIdx : /\ IsVisit(b)
                                    /\ events[b].node = c
                                    /\ NoResetSince(p, b)

\* a terminal Parallel whose child failed and whose later child was visited
\* after that failure
ParallelVisitsAllWitness ==
    \E p \in Ids :
        /\ TypeOf(p) = "Parallel"
        /\ Terminal(StatusOf(p))
        /\ \E u \in EventIdx, b \in EventIdx :
              /\ u < b
              /\ IsUpdate(u) /\ events[u].node = p
              /\ events[u].status = Failure
              /\ IsVisit(b)
              /\ IndexOf(p, events[b].node) > IndexOf(p, events[u].child)

\* ---------------------------------------------------------------------- C8
\* C8: a Parallel whose cached status is terminal is Success exactly when the
\* cached status of every one of its children is Success.
ParallelSuccessIffChildrenSucceed ==
    \A p \in Ids :
        (TypeOf(p) = "Parallel" /\ Terminal(StatusOf(p))) =>
            (StatusOf(p) = Some(Success)
                <=> \A c \in ChildSet(p) : StatusOf(c) = Some(Success))

\* ---------------------------------------------------------------------- C9
\* the root's children are Inverters, each over a Sequence that starts with
\* a leaf
InvertedSequences ==
    /\ tree[ROOT_ID] # << >>
    /\ \A d \in ChildSet(ROOT_ID) :
          /\ TypeOf(d) = "Inverter"
          /\ Len(tree[d]) = 1
          /\ TypeOf(tree[d][1]) = "Sequence"
          /\ tree[tree[d][1]] # << >>
          /\ TypeOf(tree[tree[d][1]][1]) = "Leaf"

\* C9: an Inverter that has received its child's status reports the negation
\* of the child's cached status (Running for Running); and a root over
\* Inverters of Sequences whose leaves all fail returns Success.
InverterNegates ==
    /\ \A d \in Ids :
          (/\ TypeOf(d) = "Inverter"
           /\ Len(tree[d]) = 1
           /\ NodeOf(nodes, d).node_type.child_status # None) =>
              /\ StatusOf(tree[d][1]) # None
              /\ StatusOf(d) = Some(Not(StatusOf(tree[d][1])[1]))
    /\ (phase = "done" /\ InvertedSequences /\ AllAnswers(Failure)) =>
           result = Some(Success)

\* the root over an Inverter of a failing Sequence has returned Success
InverterNegatesWitness ==
    /\ phase = "done"
    /\ InvertedSequences
    /\ AllAnswers(Failure)
    /\ result = Some(Success)

\* --------------------------------------------------------------------- C10
\* r is the only Repeater of the tree, so nothing but r resets its child
OnlyRepeater(r) ==
    \A q \in Ids : TypeOf(q) = "Repeater" => q = r

UpdatesTo(r) == {k \in EventIdx : IsUpdate(k) /\ events[k].node = r}

LeavesBelow(r) == {l \in SubtreeOf(r) : TypeOf(l) = "Leaf"}

\* C10: a Repeater(N) whose child fails on every attempt has, when the run
\* returns, status Failure, and every leaf reached below it was hooked
\* exactly N+1 times, be its child a leaf or a control subtree.
RepeaterRunsChildNPlusOneTimes ==
    \A r \in Ids :
        (/\ phase = "done"
         /\ Validated
         /\ TypeOf(r) = "Repeater"
         /\ OnlyRepeater(r)
         /\ AllAnswers(Failure)
         /\ UpdatesTo(r) # {}
         /\ \A k \in UpdatesTo(r) : events[k].status = Failure) =>
            /\ StatusOf(r) = Some(Failure)
            /\ \A l \in LeavesBelow(r) :
                  HookCount(l) > 0 =>
                      HookCount(l) = NodeOf(nodes, r).node_type.init_retry

\* --------------------------------------------------------------------- C11
\* r is a Repeater whose only child q is a Repeater, and the tree has no
\* other Repeater
NestedRepeaters(r, q) ==
    /\ TypeOf(r) = "Repeater"
    /\ tree[r] = << q >>
    /\ TypeOf(q) = "Repeater"
    /\ \A x \in Ids : TypeOf(x) = "Repeater" => x \in {r, q}

\* C11: a Repeater(N) over a Repeater(M) over a subtree that fails on every
\* attempt has, when the run returns, made the run return Failure, and
\* every leaf reached in that subtree was hooked exactly (N+1)*(M+1) times.
NestedRepeatersMultiply ==
    \A r \in Ids, q \in Ids :
        (/\ phase = "done"
         /\ Validated
         /\ NestedRepeaters(r, q)
         /\ AllAnswers(Failure)
         /\ UpdatesTo(q) # {}
         /\ \A k \in UpdatesTo(q) : events[k].status = Failure) =>
            /\ result = Some(Failure)
            /\ \A l \in LeavesBelow(q) :
                  HookCount(l) > 0 =>
                      HookCount(l) = NodeOf(nodes, r).node_type.init_retry
                                     * NodeOf(nodes, q).node_type.init_retry

\* --------------------------------------------------------------------- C12
\* the ids one edge away from the ids of S
Successors(tr, S) ==
    UNION {{tr[k][j] : j \in 1..Len(tr[k])} : k \in S \cap DOMAIN tr}

\* the ids reachable from the ids of S by one edge or more
RECURSIVE ReachableFrom(_, _, _)
ReachableFrom(tr, S, seen) ==
    LET next == Successors(tr, S) \ seen
    IN IF next = {} THEN seen
       ELSE ReachableFrom(tr, next, seen \cup next)

HasCycle(tr) == \E k \in DOMAIN tr : k \in ReachableFrom(tr, {k}, {})

\* C12: whenever build is called on a tree whose adjacency map contains a
\* directed cycle, its validation returns CycleDetected, whichever edge the
\* map's iteration examines first and wherever the cycle lies.
CycleAlwaysDetected ==
    (build_result # None /\ HasCycle(tree)) =>
        build_result = Some(CycleDetected)

\* --------------------------------------------------------------------- C13
\* the arena indices (ids) of the nodes of the tree being edited
ArenaIds == 0..(Len(nodes) - 1)

\* every node of the arena sits at the index its id field names and has a
\* child list: no node was removed, none was inserted a second time
Attached ==
    \A id \in ArenaIds :
        /\ id \in DOMAIN tree
        /\ id # ROOT_ID => NodeOf(nodes, id).id = Some(id)

IsDecoratorNode(id) ==
    is_control(NodeOf(nodes, id)) /\ is_decorator_type(NodeOf(nodes, id).node_type)

\* the Sequence, Fallback and Parallel nodes below the root that have an
\* empty child list
Dangling ==
    {id \in ArenaIds \ {ROOT_ID} :
        /\ is_control(NodeOf(nodes, id))
        /\ ~IsDecoratorNode(id)
        /\ id \in DOMAIN tree
        /\ tree[id] = << >>}

\* the decorators whose child list does not have exactly one member
BadDecorators ==
    {id \in ArenaIds : /\ IsDecoratorNode(id)
                       /\ id \in DOMAIN tree
                       /\ Len(tree[id]) # 1}

LeastOf(S) == CHOOSE i \in S : \A j \in S : i <= j

EmptyRootAcceptedWitness ==
    /\ build_result = Some(Ok)
    /\ tree[ROOT_ID] = << >>

Occurrences(tr, id) ==
    {<<p, j>> \in UNION {{<<q, i>> : i \in 1..Len(tr[q])} : q \in DOMAIN tr} :
        tr[p][j] = id}

\* C15: a tree for which build has returned Ok is a tree: no id stands in
\* two adjacency lists, nor twice in one, however the tree was assembled
\* with add_child, insert_between and remove.
BuiltTreeSharesNoChild ==
    build_result = Some(Ok) =>
        \A id \in ArenaIds : Cardinality(Occurrences(tree, id)) <= 1

\* --------------------------------------------------------------------- C16
\* C16: when add_child or add_child_with_priority has returned
\* CycleDetected, the adjacency map is the one from before the call.
CycleRollsBack ==
    (call.op = "add_child_with_priority" /\ call.ret = CycleDetected) =>
        tree = call.pre.tree

\* --------------------------------------------------------------------- C17
\* the child list a call found at id before it ran (empty without an entry)
ListBefore(id) ==
    IF id \in DOMAIN call.pre.tree THEN call.pre.tree[id] ELSE << >>

\* l without its member at position k
Without(l, k) == SubSeq(l, 1, k - 1) \o SubSeq(l, k + 1, Len(l))

\* C17: after add_child_with_priority(parent, node, pri) has accepted a node
\* that had no id, the node has the next free id (the arena's length before
\* the call) and stands in parent's list at index min(pri, number of
\* siblings), the siblings keeping their order; with add_child's priority
\* usize::MAX it stands last.
AddChildPlacesByPriority ==
    (/\ call.op = "add_child_with_priority"
     /\ call.child.id = None
     /\ call.ret.err = "Ok") =>
        LET id == call.ret.id
            siblings == ListBefore(call.parent_id)
            index == IF call.priority < Len(siblings) THEN call.priority
                     ELSE Len(siblings)
        IN /\ id = Len(call.pre.nodes)
           /\ NodeOf(nodes, id) = set_id(call.child, id)
           /\ Len(tree[call.parent_id]) = Len(siblings) + 1
           /\ tree[call.parent_id][index + 1] = id
           /\ Without(tree[call.parent_id], index + 1) = siblings
           /\ call.priority = UsizeMax =>
                  tree[call.parent_id][Len(tree[call.parent_id])] = id

\* a new node was placed between two siblings
AddChildPlacesByPriorityWitness ==
    /\ call.op = "add_child_with_priority"
    /\ call.child.id = None
    /\ call.ret.err = "Ok"
    /\ call.priority = 1
    /\ Len(ListBefore(call.parent_id)) = 2
    /\ tree[call.parent_id][2] = call.ret.id

\* --------------------------------------------------------------------- C18
\* l is what is left of m when every id equal to x is struck out, the others
\* staying in their order
RECURSIVE StruckOut(_, _)
StruckOut(m, x) ==
    IF m = << >> THEN << >>
    ELSE IF Head(m) = x THEN StruckOut(Tail(m), x)
    ELSE << Head(m) >> \o StruckOut(Tail(m), x)

\* C18: after remove(id), id stands in no adjacency list and is no key of
\* the map, the arena is the one from before the call, and every other list
\* holds its remaining children in their former order.
RemoveDetaches ==
    call.op = "remove" =>
        /\ call.id \notin DOMAIN tree
        /\ \A p \in DOMAIN tree : ~Contains(tree[p], call.id)
        /\ nodes = call.pre.nodes
        /\ DOMAIN tree = (DOMAIN call.pre.tree) \ {call.id}
        /\ \A p \in DOMAIN tree :
              tree[p] = StruckOut(call.pre.tree[p], call.id)

\* a node with children was removed from the middle of its parent's list
RemoveDetachesWitness ==
    /\ call.op = "remove"
    /\ call.id \in DOMAIN call.pre.tree
    /\ \E p \in DOMAIN call.pre.tree :
          /\ Len(call.pre.tree[p]) = 3
          /\ call.pre.tree[p][2] = call.id
          /\ Len(tree[p]) = 2

\* --------------------------------------------------------------------- C19
\* the positions of parent's former list that hold an id of move_down
MovedPositions ==
    {k \in 1..Len(ListBefore(call.parent_id)) :
        Contains(call.move_down, ListBefore(call.parent_id)[k])}

\* C19: after insert_between(parent, move_down, node) with at least one id of
\* move_down among parent's children, the new node stands in parent's list
\* where the first moved-down child stood, no id of move_down is left in
\* that list and the other children keep their order, and the new node's
\* child list is move_down in the order given.
InsertBetweenReparents ==
    (/\ call.op = "insert_between"
     /\ call.ret.err = "Ok"
     /\ MovedPositions # {}) =>
        LET id == call.ret.id
            before == ListBefore(call.parent_id)
            first == LeastOf(MovedPositions)
            others == SelectSeq(before,
                                LAMBDA v : ~Contains(call.move_down, v))
        IN /\ id = Len(call.pre.nodes)
           /\ tree[call.parent_id][first] = id
           /\ Without(tree[call.parent_id], first) = others
           /\ \A k \in 1..Len(tree[call.parent_id]) :
                 ~Contains(call.move_down, tree[call.parent_id][k])
           /\ tree[id] = call.move_down

\* of two children the first was moved down: the new node took its place
\* in front of the one that stayed
InsertBetweenReparentsWitness ==
    /\ call.op = "insert_between"
    /\ call.ret.err = "Ok"
    /\ Len(ListBefore(call.parent_id)) = 2
    /\ MovedPositions = {1}
    /\ tree[call.parent_id] = << call.ret.id, ListBefore(call.parent_id)[2] >>
    /\ tree[call.ret.id] = << ListBefore(call.parent_id)[1] >>

\* --------------------------------------------------------------------- C20
\* the node at id without its id field, over the shapes of its children in
\* their order (a node without entry in the map has no children)
RECURSIVE ShapeOf(_, _)
ShapeOf(t, id) ==
    LET children == IF id \in DOMAIN t.tree THEN t.tree[id] ELSE << >>
    IN << unset_id(NodeOf(t.nodes, id)),
          [k \in 1..Len(children) |-> ShapeOf(t, children[k])] >>

\* the structure as_subtree reads is a tree: every node has its child list,
\* no id has two parents, there is no cycle
TreeShaped ==
    /\ Attached
    /\ ~HasCycle(tree)
    /\ \A id \in ArenaIds : Cardinality(Occurrences(tree, id)) <= 1

AsSubtreeReturned ==
    call.op = "as_subtree" /\ ~IsCrash(call.ret) /\ TreeShaped

\* the copy reproduces the subtree of start_at below its root, child order
\* included
SubtreeShapeKept ==
    AsSubtreeReturned =>
        /\ call.ret.tree[ROOT_ID] = << 1 >>
        /\ ShapeOf(call.ret, 1) = ShapeOf(call.pre, call.start_at)

\* every node of the copy carries the id of the place it has in the new arena
SubtreeIdsFresh ==
    AsSubtreeReturned =>
        \A i \in 1..(Len(call.ret.nodes) - 1) :
            NodeOf(call.ret.nodes, i).id = Some(i)

\* C20: the tree as_subtree(start) returns for a subtree of a tree
\* reproduces that subtree with the child order kept, and every copied node
\* carries as its own id its fresh id in the new arena.
AsSubtreeRemapsIds == SubtreeShapeKept /\ SubtreeIdsFresh

\* --------------------------------------------------------------------- C21
\* the fresh id of the node that has id old in the spliced tree: the Subtree
\* decorator takes the first free index, the spliced nodes follow in arena
\* order
Remapped(old) == Len(call.pre.nodes) + old

RemappedList(l) == [k \in 1..Len(l) |-> Remapped(l[k])]

\* the spliced tree is as a builder makes it: every node below the root sits
\* at the index its id names
SplicedWellFormed ==
    \A i \in 1..(Len(call.subtree.nodes) - 1) :
        NodeOf(call.subtree.nodes, i).id = Some(i)

\* C21: after add_subtree_with_priority(parent, pri, subtree), a new Subtree
\* decorator stands at index min(pri, number of siblings) of parent's list,
\* its child list is the remapped child list of the spliced root, every
\* list of the spliced tree is found at the remapped parent with the
\* remapped ids in the same order, and no list of a node that existed before
\* the call, other than parent's, has changed.
AddSubtreeSplices ==
    (/\ call.op = "add_subtree_with_priority"
     /\ call.ret.err = "Ok"
     /\ SplicedWellFormed) =>
        LET id == call.ret.id
            siblings == ListBefore(call.from)
            index == IF call.priority < Len(siblings) THEN call.priority
                     ELSE Len(siblings)
        IN /\ NodeOf(nodes, id).node_type = NewSubtree
           /\ tree[call.from][index + 1] = id
           /\ Without(tree[call.from], index + 1) = siblings
           /\ id \in DOMAIN tree
           /\ tree[id] = RemappedList(call.subtree.tree[ROOT_ID])
           /\ \A p \in (DOMAIN call.subtree.tree) \ {ROOT_ID} :
                 /\ Remapped(p) \in DOMAIN tree
                 /\ tree[Remapped(p)] = RemappedList(call.subtree.tree[p])
           /\ \A q \in (DOMAIN call.pre.tree) \ {call.from} :
                 q \in DOMAIN tree /\ tree[q] = call.pre.tree[q]

\* ---------------------------------------------------------------- C22
\* the leaves of the portion of tree t below id, in depth-first order
RECURSIVE LeafOrderIn(_, _), LeafOrderOfListIn(_, _)
LeafOrderIn(t, id) == IF is_leaf(NodeOf(t.nodes, id)) THEN << id >>
                      ELSE IF id \in DOMAIN t.tree
                           THEN LeafOrderOfListIn(t, t.tree[id])
                           ELSE << >>
LeafOrderOfListIn(t, l) == IF l = << >> THEN << >>
                           ELSE LeafOrderIn(t, Head(l))
                                \o LeafOrderOfListIn(t, Tail(l))

\* the node of the receiving tree that is the copy of node old of the
\* original: the subtree's node i is spliced at index ret.id + i
CopyOf(old) == call.ret.id + call.old_to_new[old]

\* C22: a portion extracted with as_subtree and re-attached to a new tree
\* with add_subtree_with_priority is run as it was in the original: with
\* every hook answering Success, the run that has ended has hooked the
\* copies of the portion's leaves in the original's depth-first order
ReattachKeepsLeafOrder ==
    (/\ call.op = "reattach"
     /\ phase \in {"done", "crashed"}
     /\ AllAnswers(Success))
    => LET l == LeafOrderIn(call.pre, call.start_at)
       IN HookIds = [k \in 1..Len(l) |-> CopyOf(l[k])]

\* ---------------------------------------------------------------- C23
\* the ids that appear in some adjacency list
ListedIds == UNION {{tree[p][k] : k \in 1..Len(tree[p])} : p \in DOMAIN tree}

\* C23: after any sequence of add_child, add_child_with_priority,
\* insert_between, remove and add_subtree_with_priority, every id that
\* appears in an adjacency list is an index of the node arena
ListedIdsInArena == ListedIds \subseteq ArenaIds

\* ---------------------------------------------------------------- C24
\* C24: the arena is append-only and ids are stable: after a manipulation
\* call, also one that adds a node which already carries an id, the Root is
\* still at ROOT_ID and every node stored before the call is still at the
\* index it had, the index its id names
ArenaAppendOnly ==
    call.op # "None"
    => /\ is_root(NodeOf(nodes, ROOT_ID))
       /\ Len(nodes) >= Len(call.pre.nodes)
       /\ \A i \in 0..(Len(call.pre.nodes) - 1) :
             NodeOf(nodes, i) = NodeOf(call.pre.nodes, i)

\* ---------------------------------------------------------------- C25
\* the status the action registered last for the id returns
RECURSIVE RegisteredIn(_, _)
RegisteredIn(es, id) ==
    IF es = << >> THEN None
    ELSE LET e == es[Len(es)]
         IN IF e.ev = "register" /\ e.node = id THEN Some(e.status)
            ELSE RegisteredIn(SubSeq(es, 1, Len(es) - 1), id)

\* what the hook owes for a leaf: Failure without id or without action,
\* else the status of the action registered for its id
Dispatched(leaf) ==
    IF leaf.id = None THEN Failure
    ELSE UnwrapOr(RegisteredIn(events, leaf.id[1]), Failure)

\* C25: the TaskHook answers Failure for a leaf without id or without
\* registered action, and exactly the status of the registered executor or
\* conditional otherwise; in a run that answer is delivered to the parent
\* of the leaf and the run goes on
TaskHookDispatches ==
    /\ call.op = "hook" => call.ret = Dispatched(call.leaf)
    /\ \A k \in EventIdx :
          IsHook(k)
          => /\ events[k].status = Dispatched(NodeOf(nodes, events[k].node))
             /\ k < Len(events)
             /\ events[k + 1].ev = "update"
             /\ events[k + 1].child = events[k].node
             /\ events[k + 1].status = events[k].status
             /\ phase # "crashed"

\* a run that hooked a leaf without action and a leaf whose action
\* succeeded, and returned
TaskHookDispatchesWitness ==
    /\ phase = "done"
    /\ \E k \in EventIdx, j \in EventIdx :
          /\ IsHook(k) /\ IsHook(j)
          /\ events[k].node \notin DOMAIN dispatch.mask
          /\ events[k].status = Failure
          /\ events[j].node \in DOMAIN dispatch.mask
          /\ events[j].status = Success

\* the hook called with a leaf that has no id
TaskHookNoIdWitness ==
    /\ call.op = "hook"
    /\ call.leaf.id = None
    /\ call.ret = Failure
    /\ dispatch.mask # << >>

\* ---------------------------------------------------------------- C26
\* event a delivers the Success of a child to its parent: the hook's answer
\* stored on a leaf, or the status a Root/Control child returned
GotSuccess(a) == IsUpdate(a) /\ events[a].status = Success

\* C26: a child whose cached status is Success is not visited again (no
\* hook on a leaf, no tick of and no descent into a control child) until a
\* reset_branch that covers it has cleared it
SuccessNotRevisited ==
    \A a \in EventIdx, b \in EventIdx :
        (/\ a < b
         /\ GotSuccess(a)
         /\ IsVisit(b)
         /\ events[b].node = events[a].child)
        => ~NoResetBetween(events[a].child, a, b)

\* a leaf that succeeded, was cleared by a reset_branch and is hooked again
SuccessNotRevisitedWitness ==
    \E a \in EventIdx, b \in EventIdx :
        /\ a < b
        /\ GotSuccess(a)
        /\ IsHook(b)
        /\ events[b].node = events[a].child

\* ---------------------------------------------------------------- C27
\* the hook log a Sequence owes under slow leaves: its first pass goes
\* through all children in list order (a leaf answers Running and the pass
\* goes on; a Sequence child is run to its end), its second pass through
\* the children that are not Success, the leaves, in list order
RECURSIVE SlowOrder(_), SlowFirstPass(_), SlowSecondPass(_)
SlowOrder(id) == SlowFirstPass(tree[id]) \o SlowSecondPass(tree[id])
SlowFirstPass(l) ==
    IF l = << >> THEN << >>
    ELSE (IF TypeOf(Head(l)) = "Leaf" THEN << << Head(l), Running >> >>
          ELSE SlowOrder(Head(l))) \o SlowFirstPass(Tail(l))
SlowSecondPass(l) ==
    IF l = << >> THEN << >>
    ELSE (IF TypeOf(Head(l)) = "Leaf" THEN << << Head(l), Success >> >>
          ELSE << >>) \o SlowSecondPass(Tail(l))

HookLog == [k \in 1..Len(Hooks) |-> << Hooks[k].node, Hooks[k].status >>]

\* C27: in a Sequence a leaf that answers Running does not end the pass:
\* the later siblings are visited in the same pass, and the next pass
\* revisits in list order exactly the children that are not Success; with
\* leaves that answer Running first and Success second every leaf is
\* hooked exactly twice and run returns Success
SlowSequenceOrder ==
    (\A id \in Ids : TypeOf(id) \in {"Leaf", "Sequence"})
    =>
    /\ phase \in {"run", "done"} => IsPrefix(HookLog, SlowOrder(ROOT_ID))
    /\ phase = "done"
       => /\ HookLog = SlowOrder(ROOT_ID)
          /\ \A id \in Ids : TypeOf(id) = "Leaf" => HookCount(id) = 2
          /\ result = Some(Success)

\* a finished run over a tree of Sequences in which a leaf heads a list of
\* at least two children and a Sequence below the root has children
SlowSequenceOrderWitness ==
    /\ phase = "done"
    /\ \A id \in Ids : TypeOf(id) \in {"Leaf", "Sequence"}
    /\ \E p \in Ids : /\ Len(tree[p]) >= 2
                      /\ TypeOf(tree[p][1]) = "Leaf"
    /\ \E c \in Ids : TypeOf(c) = "Sequence" /\ c # ROOT_ID /\ tree[c] # << >>

\* ---------------------------------------------------------------- C28
\* the node whose list holds c (the trees that are run are trees)
ParentOf(c) == CHOOSE p \in DOMAIN tree : c \in ChildSet(p)
HasParent(c) == \E p \in DOMAIN tree : c \in ChildSet(p)
UnderFallback(c) == HasParent(c) /\ TypeOf(ParentOf(c)) = "Fallback"

\* C28: a Fallback none of whose children returned Success is Failure at the
\* end of its first pass, also when a child returned Running: it hands
\* Failure to its parent exactly when no child gave it Success in that
\* attempt (never Running), and no child of a Fallback is visited twice
\* unless a reset_branch cleared it in between
FallbackFailsAfterOnePass ==
    /\ \A u \in EventIdx :
          (IsUpdate(u) /\ TypeOf(events[u].child) = "Fallback") =>
              LET f == events[u].child
                  succeeded ==
                      \E k \in (ActivationStart(f, u) + 1)..(u - 1) :
                          /\ IsUpdate(k)
                          /\ events[k].node = f
                          /\ events[k].status = Success
              IN events[u].status = IF succeeded THEN Success ELSE Failure
    /\ \A a \in EventIdx, b \in EventIdx :
          (/\ a < b
           /\ IsVisit(a) /\ IsVisit(b)
           /\ events[a].node = events[b].node
           /\ UnderFallback(events[a].node))
          => ~NoResetBetween(events[a].node, a, b)

\* a Fallback that got Running from a child, Success from none, and handed
\* Failure to its parent, in a run that returned
FallbackFailsAfterOnePassWitness ==
    /\ phase = "done"
    /\ \E a \in EventIdx, u \in EventIdx :
          /\ a < u
          /\ IsUpdate(a) /\ IsUpdate(u)
          /\ TypeOf(events[a].node) = "Fallback"
          /\ events[a].status = Running
          /\ events[u].child = events[a].node
          /\ events[u].status = Failure
          /\ Len(tree[events[a].node]) >= 2

\* ---------------------------------------------------------------- C29
\* the state a variant has when it is constructed
InitialVariant(nt) ==
    CASE nt.type = "Sequence" -> NewSequence
      [] nt.type = "Fallback" -> NewFallback
      [] nt.type = "Parallel" -> NewParallel
      [] nt.type = "Inverter" -> NewInverter
      [] nt.type = "Repeater" -> NewRepeater(nt.init_retry - 1)
      [] nt.type = "Subtree" -> NewSubtree

\* the step drains reset requests: the events it adds are the resets
Drains == /\ Len(events') > Len(events)
          /\ events'[Len(events')].ev = "reset"
Drainer == events'[Len(events')].node
DrainedRoots == {events'[k].child : k \in (Len(events) + 1)..Len(events')}
DrainedNodes == UNION {SubtreeOf(x) : x \in DrainedRoots}

\* C29: draining a reset request for X resets the subtree of X and nothing
\* else: X and its descendants have no cached status and the variant state
\* of a new node (a Repeater its retries N + 1 and no stored request); the
\* status and variant state of every other node are what they were, those
\* of the draining node what its tick at the end of the pass left
ResetFrameStep ==
    Drains =>
        /\ \A n \in DrainedNodes :
              /\ NodeOf(nodes', n).status = None
              /\ ~is_leaf(NodeOf(nodes', n))
                 => NodeOf(nodes', n).node_type
                        = InitialVariant(NodeOf(nodes, n).node_type)
        /\ \A n \in Ids \ (DrainedNodes \cup {Drainer}) :
              NodeOf(nodes', n) = NodeOf(nodes, n)
        /\ Drainer \notin DrainedNodes
           => LET ticked == CTreeNodeTick(CTreeNodeAllChildrenSeen(
                                NodeOf(nodes, Drainer))).self
              IN /\ NodeOf(nodes', Drainer).status = ticked.status
                 /\ NodeOf(nodes', Drainer).node_type = ticked.node_type
ResetFrame == [][ResetFrameStep]_vars

\* a drain has just reset a node that has a child which had been visited
ResetFrameWitness ==
    /\ events # << >>
    /\ events[Len(events)].ev = "reset"
    /\ tree[events[Len(events)].child] # << >>
    /\ \E k \in EventIdx :
          /\ IsVisit(k)
          /\ events[k].node \in ChildSet(events[Len(events)].child)

\* ---------------------------------------------------------------- C30
\* the attempts of the child of Repeater r are the statuses it handed to r
FailuresTo(r) == {k \in UpdatesTo(r) : events[k].status = Failure}
SuccessesTo(r) == {k \in UpdatesTo(r) : events[k].status = Success}

\* the child of r failed k <= N times and then succeeded, no hook answer
\* being Running
FailsThenSucceeds(r) ==
    /\ TypeOf(r) = "Repeater"
    /\ OnlyRepeater(r)
    /\ Validated
    /\ \A k \in EventIdx : IsHook(k) => events[k].status # Running
    /\ Cardinality(SuccessesTo(r)) = 1
    /\ UpdatesTo(r) = FailuresTo(r) \cup SuccessesTo(r)
    /\ \A f \in FailuresTo(r), g \in SuccessesTo(r) : f < g
    /\ Cardinality(FailuresTo(r)) < NodeOf(nodes, r).node_type.init_retry

VisitCount(c) ==
    Cardinality({k \in EventIdx : IsVisit(k) /\ events[k].node = c})

\* C30: a Repeater(N) whose child fails k <= N times and then succeeds
\* reports Success after exactly k + 1 executions of the child, and every
\* retry executes the child's subtree from scratch: each attempt starts
\* again at the first leaf, also when that leaf had succeeded in the failed
\* attempt, and no leaf is hooked more often than there were attempts
RepeaterRetriesFromScratch ==
    \A r \in Ids :
        (phase = "done" /\ FailsThenSucceeds(r)) =>
            LET attempts == Cardinality(FailuresTo(r)) + 1
                c == tree[r][1]
            IN /\ StatusOf(r) = Some(Success)
               /\ VisitCount(c) = attempts
               /\ HookCount(LeafOrder(c)[1]) = attempts
               /\ \A l \in LeavesBelow(r) : HookCount(l) <= attempts

\* a Repeater over a control node whose first leaf succeeded in an attempt
\* that failed and was hooked again in the attempt that succeeded
RepeaterRetriesFromScratchWitness ==
    /\ phase = "done"
    /\ \E r \in Ids :
          /\ FailsThenSucceeds(r)
          /\ FailuresTo(r) # {}
          /\ TypeOf(tree[r][1]) # "Leaf"
          /\ \E a \in EventIdx, f \in FailuresTo(r) :
                /\ a < f
                /\ IsHook(a)
                /\ events[a].status = Success
                /\ events[a].node = LeafOrder(tree[r][1])[1]

\* ---------------------------------------------------------------- C31
Repeaters == {n \in Ids : TypeOf(n) = "Repeater"}
RetryOf(ns, n) == NodeOf(ns, n).node_type.retry
InitRetryOf(n) == NodeOf(nodes, n).node_type.init_retry

\* the events the step adds
NewEvents == {k \in 1..Len(events') : k > Len(events)}
\* the step delivers a child update of status s to node n
UpdatesNow(n, s) ==
    \E k \in NewEvents : /\ events'[k].ev = "update"
                         /\ events'[k].node = n
                         /\ events'[k].status = s
\* the step resets a branch that holds n
ResetsNow(n) ==
    \E k \in NewEvents : /\ events'[k].ev = "reset"
                         /\ n \in SubtreeOf(events'[k].child)

\* C31: the retry counter of a Repeater(N) starts at N + 1 and stays
\* within 0..N + 1; a Failure update received while it is positive takes
\* exactly one off, Running and Success updates (and any update at 0) leave
\* it, and it grows only by a reset, which restores N + 1
RetryCounterStep ==
    \A n \in Repeaters :
        /\ events = << >> => RetryOf(nodes, n) = InitRetryOf(n)
        /\ RetryOf(nodes', n) \in 0..InitRetryOf(n)
        /\ (UpdatesNow(n, Failure) /\ RetryOf(nodes, n) > 0)
           => RetryOf(nodes', n) = RetryOf(nodes, n) - 1
        /\ (UpdatesNow(n, Failure) /\ RetryOf(nodes, n) = 0)
           => RetryOf(nodes', n) = 0
        /\ (UpdatesNow(n, Running) \/ UpdatesNow(n, Success))
           => RetryOf(nodes', n) = RetryOf(nodes, n)
        /\ RetryOf(nodes', n) < RetryOf(nodes, n) => UpdatesNow(n, Failure)
        /\ RetryOf(nodes', n) > RetryOf(nodes, n)
           => ResetsNow(n) /\ RetryOf(nodes', n) = InitRetryOf(n)
RetryCounter == [][Len(nodes') = Len(nodes) => RetryCounterStep]_vars

\* a Repeater that spent a retry on a Failure, got a Running update, and
\* was then restored by the reset of a branch that holds it
RetryCounterWitness ==
    \E n \in Repeaters, a \in EventIdx, b \in EventIdx, c \in EventIdx :
        /\ IsUpdate(a) /\ events[a].node = n /\ events[a].status = Failure
        /\ IsUpdate(b) /\ events[b].node = n /\ events[b].status = Running
        /\ a < c /\ IsResetOf(c, n)
        /\ RetryOf(nodes, n) = InitRetryOf(n)

\* ---------------------------------------------------------------- C32
\* the step drains a reset request of node n
DrainsNow(n) ==
    \E k \in NewEvents : events'[k].ev = "reset" /\ events'[k].node = n

\* C32: a Repeater whose retry counter is 0 answers the next child update,
\* be it Success, Running or Failure, with status Failure, and while the
\* counter is 0 no reset request of it is drained
ExhaustedRepeaterStep ==
    \A n \in Repeaters :
        /\ (RetryOf(nodes, n) = 0 /\ \E s \in Status : UpdatesNow(n, s))
           => /\ NodeOf(nodes', n).node_type.status = Some(Failure)
              /\ NodeOf(nodes', n).status = Some(Failure)
        /\ DrainsNow(n) => RetryOf(nodes, n) > 0
ExhaustedRepeater == [][Len(nodes') = Len(nodes) => ExhaustedRepeaterStep]_vars

\* a Repeater without retries that was handed Success and is Failure
ExhaustedRepeaterWitness ==
    \E n \in Repeaters :
        /\ RetryOf(nodes, n) = 0
        /\ StatusOf(n) = Some(Failure)
        /\ UpdatesTo(n) # {}
        /\ \A k \in UpdatesTo(n) :
              (\A j \in UpdatesTo(n) : j <= k) => events[k].status = Success

\* ---------------------------------------------------------------- C33
ResetRequestsEmpty ==
    \A n \in Ids : is_control(NodeOf(nodes, n))
                   => NodeOf(nodes, n).reset_requests = << >>

\* the reset events the step appends
DrainedNow == SubSeq(events', Len(events) + 1, Len(events'))

\* a step that drains node n ends a pass of n, a Repeater with retries left
\* whose stored request is the one branch that is reset, and takes the
\* request out of the decorator
DrainStep(n) ==
    /\ TypeOf(n) = "Repeater"
    /\ stack # << >> /\ Top.node_id = n
    /\ Top.pc = "seen" \/ (Top.pc = "for" /\ Top.i > Len(Top.children))
    /\ RetryOf(nodes, n) > 0
    /\ NodeOf(nodes, n).node_type.reset_request # None
    /\ DrainedNow =
         << Event("reset", n, NodeOf(nodes, n).node_type.reset_request[1],
                  "None") >>
    /\ NodeOf(nodes', n).node_type.reset_request = None

\* C33: a decorator's reset request reaches reset_requests only at
\* all_children_seen, once per stored request and only with retries left,
\* and is drained at the end of that pass: the list of every control node is
\* empty before and after every step of the engine
ResetRequestsDrained ==
    [][/\ ResetRequestsEmpty
       /\ ResetRequestsEmpty'
       /\ Len(nodes') = Len(nodes)
          => \A n \in Ids : DrainsNow(n) => DrainStep(n)]_vars

\* run has returned after a Repeater's request was drained
ResetRequestsDrainedWitness ==
    /\ phase = "done"
    /\ ResetRequestsEmpty
    /\ \E k \in EventIdx : events[k].ev = "reset"
                           /\ TypeOf(events[k].node) = "Repeater"

\* ---------------------------------------------------------------- C34
LeavesChildless ==
    \A l \in Ids : (TypeOf(l) = "Leaf" /\ l \in DOMAIN tree) => tree[l] = << >>

\* C34: while no leaf has children, a run from the root delivers no
\* child_updated to a Leaf: no update is addressed to a leaf and no leaf
\* carries the mark of the panic "Leaf nodes should not have children"
LeafNeverUpdated ==
    LeavesChildless =>
        /\ \A k \in EventIdx : IsUpdate(k) => TypeOf(events[k].node) # "Leaf"
        /\ \A n \in Ids : StatusOf(n) # Some("Panic")

\* a finished run that hooked a leaf and delivered its update to the parent
LeafNeverUpdatedWitness ==
    /\ phase = "done"
    /\ LeavesChildless
    /\ \E k \in EventIdx : /\ IsUpdate(k)
                           /\ TypeOf(events[k].child) = "Leaf"
                           /\ TypeOf(events[k].node) # "Leaf"
    /\ \E k \in EventIdx : IsUpdate(k) /\ TypeOf(events[k].child) # "Leaf"

\* ---------------------------------------------------------------- C35
\* every activation above the first is the child its caller stands at
CallerWaits ==
    \A j \in 2..Len(stack) :
        /\ stack[j - 1].pc = "for"
        /\ stack[j - 1].i \in 1..Len(stack[j - 1].children)
        /\ stack[j - 1].children[stack[j - 1].i] = stack[j].node_id

\* C35: the ChildUpdate delivered for a Root/Control child is Success or
\* Failure (Running comes from leaves only), and while run_from works on a
\* control child its caller stays at that child
ControlUpdatesTerminal ==
    /\ \A k \in EventIdx :
          (IsUpdate(k) /\ TypeOf(events[k].child) # "Leaf")
             => events[k].status \in {Success, Failure}
    /\ \A k \in EventIdx :
          (IsUpdate(k) /\ events[k].status = Running)
             => TypeOf(events[k].child) = "Leaf"
    /\ CallerWaits

\* a control child that ticked Running, took two passes over one of its
\* leaves and then delivered a terminal status
ControlUpdatesTerminalWitness ==
    \E a, b, d, e \in EventIdx :
        /\ a < b /\ b < d /\ d < e
        /\ events[a].ev = "tick" /\ events[a].status = Running
        /\ IsHook(b) /\ IsHook(d)
        /\ events[b].node = events[d].node
        /\ events[b].node \in SubtreeOf(events[a].node)
        /\ IsUpdate(e) /\ events[e].child = events[a].node
        /\ events[e].status \in {Success, Failure}

\* ---------------------------------------------------------------- C36
ControlIds == {n \in Ids : TypeOf(n) # "Leaf"}

\* C36: a control node whose cached status is Success or Failure keeps that
\* value in every step of the run that does not reset a branch covering it
TerminalStatusKept ==
    [][Len(nodes') = Len(nodes)
       => \A n \in ControlIds :
             (Terminal(StatusOf(n)) /\ ~ResetsNow(n))
                => NodeOf(nodes', n).status = StatusOf(n)]_vars

\* a control node that was handed to its parent as Failure, was ticked again
\* in a later pass without a reset in between and is still Failure
TerminalStatusKeptWitness ==
    \E n \in ControlIds, a, b \in EventIdx :
        /\ a < b
        /\ IsUpdate(a) /\ events[a].child = n /\ events[a].status = Failure
        /\ events[b].ev = "tick" /\ events[b].node = n
        /\ NoResetSince(n, a)
        /\ StatusOf(n) = Some(Failure)

\* ---------------------------------------------------------------- C37
\* C37: when the cached status of a Sequence (the root included) or of a
\* Parallel is Success, the cached status of each of its children is Success
SuccessMeansChildrenSuccess ==
    \A n \in ControlIds :
        (TypeOf(n) \in {"Sequence", "Parallel"} /\ StatusOf(n) = Some(Success))
           => \A c \in ChildSet(n) : StatusOf(c) = Some(Success)

\* a Parallel with two children and the root above it, both Success
SuccessMeansChildrenSuccessWitness ==
    /\ phase = "done"
    /\ StatusOf(ROOT_ID) = Some(Success)
    /\ \E n \in ControlIds :
          /\ TypeOf(n) = "Parallel"
          /\ n \in ChildSet(ROOT_ID)
          /\ Cardinality(ChildSet(n)) = 2
          /\ StatusOf(n) = Some(Success)
          /\ \E k \in EventIdx : IsUpdate(k) /\ events[k].node = n
                                 /\ events[k].status = Running

\* ---------------------------------------------------------------- C38
Ancestors(l) == {a \in DOMAIN tree : a # l /\ l \in SubtreeOf(a)}

HooksNow(l) ==
    \E k \in NewEvents : events'[k].ev = "hook" /\ events'[k].node = l

\* C38: the hook runs on a leaf only while the cached status of each of its
\* ancestors, the root among them, is Running
HookUnderRunning ==
    [][Len(nodes') = Len(nodes)
       => \A l \in Ids :
             HooksNow(l)
                => /\ ROOT_ID \in Ancestors(l)
                   /\ \A a \in Ancestors(l) : StatusOf(a) = Some(Running)]_vars

\* a hooked leaf two levels below the root, next to a sibling that is done
HookUnderRunningWitness ==
    \E k \in EventIdx :
        /\ IsHook(k)
        /\ Cardinality(Ancestors(events[k].node)) >= 2
        /\ \E j \in 1..(k - 1) :
              /\ IsUpdate(j)
              /\ events[j].node = ParentOf(events[k].node)
              /\ events[j].child # events[k].node

\* ---------------------------------------------------------------- C39
\* C39: on a tree whose root has no children build answers Ok, and run
\* returns Success without a call of the hook
EmptyRootRun ==
    tree[ROOT_ID] = << >>
       => /\ build_result # None => build_result = Some(Ok)
          /\ phase = "done" => (result = Some(Success) /\ Hooks = << >>)

\* the tree of new() was built, run, and the run has returned
EmptyRootRunWitness ==
    /\ tree[ROOT_ID] = << >>
    /\ build_result = Some(Ok)
    /\ phase = "done"
    /\ result = Some(Success)

\* ---------------------------------------------------------------- C40
\* the ids listed as children in the map tr
ListedIn(tr) == UNION {{tr[p][k] : k \in 1..Len(tr[p])} : p \in DOMAIN tr}

KeysCoverChildren(tr) == ListedIn(tr) \subseteq DOMAIN tr

\* the slice handed to insert_between names nodes that had their entry
MoveDownHadKeys ==
    call.op = "insert_between"
       => \A k \in 1..Len(call.move_down) :
             call.move_down[k] \in DOMAIN call.pre.tree

\* C40: in the tree left by add_child, insert_between and
\* add_subtree_with_priority, called on a tree all of whose listed ids are
\* keys, and in the tree as_subtree returns for such a tree, every id of a
\* child list, leaves included, is a key of the adjacency map
ChildIdsAreKeys ==
    (/\ call.op \in {"add_child_with_priority", "insert_between",
                     "add_subtree_with_priority", "as_subtree"}
     /\ ~IsCrash(call.ret)
     /\ KeysCoverChildren(call.pre.tree)
     /\ MoveDownHadKeys)
       => /\ KeysCoverChildren(tree)
          /\ call.op = "as_subtree" => KeysCoverChildren(call.ret.tree)

====
